---- MODULE Spec2Model ----
(***************************************************************************)
(* LensKey Vault: the biometric password-wrapping protocol of lib/auth.ts  *)
(* over the envelope cipher of lib/crypto.ts.                              *)
(*                                                                         *)
(* localStorage is a map from keys to values; the platform authenticator   *)
(* (navigator.credentials) and the random source are the environment.      *)
(* Strings kept in storage are wrapped in one-field records so that every  *)
(* stored value can be compared with every other one.                      *)
(***************************************************************************)
EXTENDS Integers, Sequences, FiniteSets, TLC

\* ------------------------------------------------------------------ bounds
MaxCred == 2        \* credentials the authenticator creates in one run
MaxRand == 2        \* encryptData calls (fresh salt/iv draws) in one run
MaxFaults == 1      \* encryptData failures and rejected setItem calls in one run
MaxLen == 2         \* code units of a plaintext handed to encryptData

\* --------------------------------------------------------------- constants
LEGACY_AUTH_ITEM_ID == "master-biometric-credential"

Items == {"item-1"}
Undefined == "undefined"                 \* an omitted optional argument
ItemArgs == Items \cup {Undefined}
Ids == Items \cup {LEGACY_AUTH_ITEM_ID}
Passwords == {"abc12345", "p@ss"}
\* registerBiometrics(password, id, title) and registerBiometrics(password)
\* are the two forms the components call
DisplayNames(itemId) == IF itemId # Undefined THEN {"Seed"} ELSE {Undefined}

Null == [null |-> TRUE]                  \* getItem on an absent key
Str(s) == [str |-> s]                    \* a stored string
TrueFlag == Str("true")

\* the truthiness of a value that is null or a string: !!v, v || w, if (v)
Truthy(v) == v # Null /\ v # Str("")

\* ------------------------------------------------------------ storage keys
PassKey(id) == <<"bio_pass_", id, "">>
SecureKey(id) == <<"bio_pass_", id, "_secure">>
CredKey(id) == <<"bio_cred_", id, "">>
NameKey(id) == <<"bio_name_", id, "">>
Keys == {PassKey(id) : id \in Ids} \cup {SecureKey(id) : id \in Ids}
          \cup {CredKey(id) : id \in Ids} \cup {NameKey(id) : id \in Items}

\* itemId ? itemId : LEGACY_AUTH_ITEM_ID, the id every key of a call is built on
ScopeId(itemId) == IF itemId # Undefined THEN itemId ELSE LEGACY_AUTH_ITEM_ID

\* --------------------------------------------------------------- encodings
HexDigits == <<"0", "1", "2", "3", "4", "5", "6", "7",
               "8", "9", "a", "b", "c", "d", "e", "f">>

\* b.toString(16).padStart(2, '0')
HexByte(b) == HexDigits[(b \div 16) + 1] \o HexDigits[(b % 16) + 1]

RECURSIVE ToHex(_)
\* Array.from(prfKey).map(...).join('')
ToHex(bytes) ==
  IF bytes = <<>> THEN "" ELSE HexByte(Head(bytes)) \o ToHex(Tail(bytes))

\* btoa over the raw id bytes; the raw id of credential c is the byte string <<c>>
bufferToBase64(rawId) == [b64 |-> rawId]
base64ToBuffer(b64v) == b64v.b64

\* ----------------------------------------------------------- authenticator
\* The raw id of the c-th credential the authenticator created.
RawId(c) == <<c>>
\* The PRF output (results.first) of credential c over the fixed PRF_SALT:
\* deterministic per credential, different for different credentials.
PrfFirst(c) == <<(17 * c) % 256, (255 - c) % 256>>

\* ------------------------------------------------------------------ cipher
\* A string is Str(s), a JSON object text (a record of its members) or
\* [units |-> <<code units>>], a string given by its UTF-16 code units.  The
\* first two are ASCII in this model and stand for their own bytes.
HighSurrogate == "D83D"
LowSurrogate == "DE00"
ByteOrderMark == "FEFF"
ReplacementChar == "FFFD"
CodeUnits == {"a", ByteOrderMark, HighSurrogate, LowSurrogate}

RECURSIVE ToScalars(_)
\* TextEncoder.encode converts to scalar values first: a surrogate pair is
\* one scalar, a surrogate standing alone becomes U+FFFD.  The UTF-8 bytes
\* are in bijection with the scalar values and are modelled by them.
ToScalars(units) ==
  IF units = <<>> THEN <<>>
  ELSE IF /\ Len(units) >= 2 /\ units[1] = HighSurrogate
          /\ units[2] = LowSurrogate
    THEN <<"1F600">> \o ToScalars(Tail(Tail(units)))
  ELSE IF units[1] \in {HighSurrogate, LowSurrogate}
    THEN <<ReplacementChar>> \o ToScalars(Tail(units))
  ELSE <<units[1]>> \o ToScalars(Tail(units))

RECURSIVE FromScalars(_)
FromScalars(scalars) ==
  IF scalars = <<>> THEN <<>>
  ELSE IF scalars[1] = "1F600"
    THEN <<HighSurrogate, LowSurrogate>> \o FromScalars(Tail(scalars))
  ELSE <<scalars[1]>> \o FromScalars(Tail(scalars))

\* encoder.encode(text)
TextEncode(text) ==
  IF "units" \in DOMAIN text THEN [utf8 |-> ToScalars(text.units)] ELSE text

\* new TextDecoder().decode(bytes): ignoreBOM is false, so a leading U+FEFF
\* is taken for a byte order mark and left out of the result
TextDecode(bytes) ==
  IF "utf8" \in DOMAIN bytes
    THEN [units |-> FromScalars(IF /\ bytes.utf8 # <<>>
                                   /\ bytes.utf8[1] = ByteOrderMark
                                  THEN Tail(bytes.utf8)
                                  ELSE bytes.utf8)]
    ELSE bytes

\* window.btoa over the bytes, and window.atob, which throws on a string
\* that is not base64
arrayBufferToBase64(buffer) == [b64 |-> buffer]
IsBase64(v) == DOMAIN v = {"b64"}
base64ToArrayBuffer(base64) == base64.b64

\* PBKDF2(password bytes, salt): deterministic in (password bytes, salt)
getDerivedKey(password, salt) ==
  [password |-> TextEncode(password), salt |-> salt]

\* AES-GCM sealing of data under (key, iv)
Seal(data, key, iv) == [data |-> data, key |-> key, iv |-> iv]

\* the GCM tag of ciphertext verifies under (key, iv)
Opens(ciphertext, key, iv) ==
  /\ DOMAIN ciphertext = {"data", "key", "iv"}
  /\ ciphertext.key = key
  /\ ciphertext.iv = iv

\* mutant: salt and iv are set up once and used by every call
encryptDataFixedNonce(text, password, salt, iv) ==
  [ciphertext |->
     arrayBufferToBase64(Seal(TextEncode(text), getDerivedKey(password, 1), 1)),
   iv |-> arrayBufferToBase64(1),
   salt |-> arrayBufferToBase64(1)]

\* encryptData(text, password) with the salt and iv the random source gave
encryptData(text, password, salt, iv) ==
  [ciphertext |->
     arrayBufferToBase64(Seal(TextEncode(text), getDerivedKey(password, salt), iv)),
   iv |-> arrayBufferToBase64(iv),
   salt |-> arrayBufferToBase64(salt)]

IsEnvelope(v) == DOMAIN v = {"ciphertext", "iv", "salt"}

\* JSON.parse(text) yields an object
IsJsonObject(v) == DOMAIN v \cap {"str", "units", "null"} = {}

Thrown(error) == [ok |-> FALSE, error |-> error, value |-> Null]

\* line 111, the one error of the catch
DecryptionFailed == "Decryption failed. Incorrect password?"

\* decryptData(encryptedJson, password): JSON.parse (line 90) and the three
\* atob calls (lines 91-93) run before the try and throw their own errors;
\* inside the try the AES-GCM tag check fails unless key and iv match.
decryptData(encryptedJson, password) ==
  IF ~IsJsonObject(encryptedJson) THEN Thrown("SyntaxError")
  ELSE IF \E f \in {"ciphertext", "iv", "salt"} :
            f \notin DOMAIN encryptedJson \/ ~IsBase64(encryptedJson[f])
    THEN Thrown("InvalidCharacterError")
  ELSE LET ciphertext == base64ToArrayBuffer(encryptedJson.ciphertext)
           iv == base64ToArrayBuffer(encryptedJson.iv)
           salt == base64ToArrayBuffer(encryptedJson.salt)
           key == getDerivedKey(password, salt)
       IN IF Opens(ciphertext, key, iv)
            THEN [ok |-> TRUE, error |-> "",
                  value |-> TextDecode(ciphertext.data)]
            ELSE Thrown(DecryptionFailed)

\* ------------------------------------------------------------------- state
VARIABLES
  localStorage,   \* [Keys -> stored value or Null]
  credentials,    \* number of credentials created on the authenticator
  rand,           \* number of salt/iv pairs drawn so far
  faults,         \* number of encryptData failures and rejected writes so far
  registered,     \* per id: what the last successful register stored, or Null
  last,           \* the call that was made last, and how it ended
  db,             \* the Dexie tables vault_items and categories, by key
  pending,        \* the async calls that are suspended at an await
  ui              \* the React state, timers and listeners of the mounted view

vars == <<localStorage, credentials, rand, faults, registered, last, db,
          pending, ui>>

\* no call is suspended and no component is mounted
NoPending == <<>>
NoUi == [mounted |-> FALSE, component |-> "none"]

\* both tables empty; a table maps a primary key to its row, Null for none
VaultIds == {"v1", "v2"}
CategoryNames == {"Seeds"}
EmptyDb == [vault_items |-> [id \in VaultIds |-> Null],
            categories |-> [name \in CategoryNames |-> Null]]

NoCall == [op |-> "none", itemId |-> Undefined,
           outcome |-> "", ret |-> Null, cred |-> 0, prf |-> FALSE,
           migration |-> "none"]

Init ==
  /\ localStorage = [k \in Keys |-> Null]
  /\ credentials = 0
  /\ rand = 0
  /\ faults = 0
  /\ registered = [id \in Ids |-> Null]
  /\ last = NoCall
  /\ db = EmptyDb
  /\ pending = NoPending
  /\ ui = NoUi

\* ----------------------------------------------------------- storage writes
\* A write is <<key, value>>; value Null is removeItem(key).
setItem(key, value) == <<key, value>>
removeItem(key) == <<key, Null>>

RECURSIVE ApplyWrites(_, _, _)
\* the store after the first n writes of ws
ApplyWrites(store, ws, n) ==
  IF n = 0 \/ ws = <<>> THEN store
  ELSE ApplyWrites([store EXCEPT ![Head(ws)[1]] = Head(ws)[2]], Tail(ws), n - 1)

\* The writes of a handler run in order; setItem number `reject` throws
\* (QuotaExceededError), 0 when every write is accepted.  removeItem never
\* throws.
CanReject(ws, reject) ==
  reject = 0 \/ (reject \in 1..Len(ws) /\ ws[reject][2] # Null)

Written(store, ws, reject) ==
  IF reject = 0 THEN ApplyWrites(store, ws, Len(ws))
  ELSE ApplyWrites(store, ws, reject - 1)

\* ------------------------------------------------------ registerBiometrics
\* mutant: the PRF output of the new credential is ignored
RegisterRecordWritesLegacyOnly(id, password, hasPrf, prfKeyHex, salt, iv) ==
  <<setItem(PassKey(id), Str(password)), removeItem(SecureKey(id))>>

\* lines 72-84: the password record written for a created credential
RegisterRecordWrites(id, password, hasPrf, prfKeyHex, salt, iv) ==
  IF hasPrf
    THEN <<setItem(PassKey(id), encryptData(Str(password), prfKeyHex, salt, iv)),
           setItem(SecureKey(id), TrueFlag)>>
    ELSE <<setItem(PassKey(id), Str(password)),
           removeItem(SecureKey(id))>>

\* lines 86-95: the credential id (and display name) kept for allowCredentials
RegisterCredWrites(itemId, displayName, rawId) ==
  IF itemId # Undefined
    THEN <<setItem(CredKey(itemId), bufferToBase64(rawId))>>
         \o (IF displayName # Undefined
               THEN <<setItem(NameKey(itemId), Str(displayName))>>
               ELSE <<>>)
    ELSE <<setItem(CredKey(LEGACY_AUTH_ITEM_ID), bufferToBase64(rawId))>>

RegisterWrites(itemId, password, displayName, c, hasPrf, salt, iv) ==
  RegisterRecordWrites(ScopeId(itemId), password, hasPrf,
                       Str(ToHex(PrfFirst(c))), salt, iv)
    \o RegisterCredWrites(itemId, displayName, RawId(c))

\* mutant: the plaintext record is stored before the credential is awaited
registerDeclinedAfterStore(password, itemId, how) ==
  /\ last' = [op |-> "register", itemId |-> itemId,
              outcome |-> how, ret |-> Null, cred |-> 0, prf |-> FALSE,
              migration |-> "none"]
  /\ localStorage' = [localStorage EXCEPT
                        ![PassKey(ScopeId(itemId))] = Str(password),
                        ![SecureKey(ScopeId(itemId))] = Null]
  /\ UNCHANGED <<credentials, rand, faults, registered, db, pending, ui>>

\* navigator.credentials.create rejects (user cancels, unsupported device)
\* or yields null: nothing is created and nothing is written.
registerDeclined(password, itemId, how) ==
  /\ last' = [op |-> "register", itemId |-> itemId,
              outcome |-> how, ret |-> Null, cred |-> 0, prf |-> FALSE,
              migration |-> "none"]
  /\ UNCHANGED <<localStorage, credentials, rand, faults, registered, db,
                 pending, ui>>

\* The credential was created but encryptData threw before any write.
registerEncryptFailed(password, itemId) ==
  /\ credentials < MaxCred
  /\ rand < MaxRand
  /\ faults < MaxFaults
  /\ credentials' = credentials + 1
  /\ rand' = rand + 1
  /\ faults' = faults + 1
  /\ registered' = [registered EXCEPT ![ScopeId(itemId)] = Null]
  /\ last' = [op |-> "register", itemId |-> itemId,
              outcome |-> "EncryptError", ret |-> Null,
              cred |-> credentials + 1, prf |-> TRUE, migration |-> "none"]
  /\ UNCHANGED <<localStorage, db, pending, ui>>

\* The credential was created and the writes of lines 72-95 ran, all of them
\* (reject = 0) or up to the setItem that threw.
registerStored(password, itemId, displayName, hasPrf, reject) ==
  LET c == credentials + 1
      ws == RegisterWrites(itemId, password, displayName, c, hasPrf,
                           rand + 1, rand + 1)
  IN /\ credentials < MaxCred
     /\ hasPrf => rand < MaxRand
     /\ CanReject(ws, reject)
     /\ reject # 0 => faults < MaxFaults
     /\ faults' = IF reject # 0 THEN faults + 1 ELSE faults
     /\ credentials' = c
     /\ rand' = IF hasPrf THEN rand + 1 ELSE rand
     /\ localStorage' = Written(localStorage, ws, reject)
     /\ registered' = [registered EXCEPT ![ScopeId(itemId)] =
                         IF reject = 0
                           THEN [password |-> password, cred |-> c]
                           ELSE Null]
     /\ last' = [op |-> "register", itemId |-> itemId,
                 outcome |-> IF reject = 0 THEN "ok" ELSE "QuotaExceededError",
                 ret |-> Null, cred |-> c, prf |-> hasPrf,
                 migration |-> "none"]
     /\ UNCHANGED <<db, pending, ui>>

registerBiometrics(password, itemId, displayName) ==
  \/ \E how \in {"NotAllowedError", "Biometric registration failed"} :
       registerDeclined(password, itemId, how)
  \/ registerEncryptFailed(password, itemId)
  \/ \E hasPrf \in BOOLEAN, reject \in 0..4 :
       registerStored(password, itemId, displayName, hasPrf, reject)

\* -------------------------------------------------------- verifyBiometrics
\* mutant: the legacy credential is never added to the list
AllowCredentialsOwnOnly(store, itemId) ==
  LET credIdB64 == store[CredKey(ScopeId(itemId))]
  IN IF credIdB64 # Null THEN <<base64ToBuffer(credIdB64)>> ELSE <<>>

\* lines 104-126: the raw ids put on the allowCredentials list
AllowCredentials(store, itemId) ==
  LET credIdB64 == store[CredKey(ScopeId(itemId))]
      legacyCred == store[CredKey(LEGACY_AUTH_ITEM_ID)]
  IN (IF credIdB64 # Null THEN <<base64ToBuffer(credIdB64)>> ELSE <<>>)
     \o (IF itemId # Undefined /\ legacyCred # Null /\ legacyCred # credIdB64
           THEN <<base64ToBuffer(legacyCred)>>
           ELSE <<>>)

\* The credentials the platform may answer navigator.credentials.get with:
\* one on the allow list, or any resident credential when the list is omitted.
Assertable(allow, created) ==
  IF Len(allow) > 0
    THEN {c \in 1..created : \E i \in 1..Len(allow) : allow[i] = RawId(c)}
    ELSE 1..created

\* mutant: the operands of || swapped, the global password read first
StoredValueLegacyFirst(store, itemId) ==
  IF Truthy(store[PassKey(LEGACY_AUTH_ITEM_ID)])
    THEN store[PassKey(LEGACY_AUTH_ITEM_ID)]
    ELSE store[PassKey(ScopeId(itemId))]

\* lines 146-148: getItem(storageKey) || getItem(bio_pass_<legacy id>)
StoredValue(store, itemId) ==
  IF Truthy(store[PassKey(ScopeId(itemId))])
    THEN store[PassKey(ScopeId(itemId))]
    ELSE store[PassKey(LEGACY_AUTH_ITEM_ID)]

\* lines 152-153
IsSecure(store, itemId) ==
  \/ store[SecureKey(ScopeId(itemId))] = TrueFlag
  \/ store[SecureKey(LEGACY_AUTH_ITEM_ID)] = TrueFlag

\* mutant: without a PRF output the stored value is handed out as it is
VerifySecureFallsBack(storedValue, hasPrf, prfKeyHex) ==
  IF hasPrf
    THEN LET d == decryptData(storedValue, prfKeyHex)
         IN [outcome |-> IF d.ok THEN "ok" ELSE d.error, ret |-> d.value]
    ELSE [outcome |-> "ok", ret |-> storedValue]

\* lines 155-163: the secure branch
VerifySecure(storedValue, hasPrf, prfKeyHex) ==
  IF hasPrf
    THEN LET d == decryptData(storedValue, prfKeyHex)
         IN [outcome |-> IF d.ok THEN "ok" ELSE d.error, ret |-> d.value]
    ELSE [outcome |-> "Secure biometric unlock failed: PRF not available",
          ret |-> Null]

\* lines 174-176: the writes of the auto-migration
MigrationWrites(id, password, prfKeyHex, salt, iv) ==
  <<setItem(PassKey(id), encryptData(password, prfKeyHex, salt, iv)),
    setItem(SecureKey(id), TrueFlag)>>

\* mutant: the secure flag is written before encryptData is awaited
MigratedFlagFirst(store, id, storedValue, prfKeyHex, salt, iv, encryptOk, reject) ==
  IF ~encryptOk THEN [store EXCEPT ![SecureKey(id)] = TrueFlag]
  ELSE Written(store,
               MigrationWrites(id, storedValue, prfKeyHex, salt, iv),
               reject)

\* lines 168-181: what the auto-migration leaves in storage.  encryptOk is
\* whether encryptData resolved; a throw anywhere in the try is swallowed.
Migrated(store, id, storedValue, prfKeyHex, salt, iv, encryptOk, reject) ==
  IF ~encryptOk THEN store
  ELSE Written(store,
               MigrationWrites(id, storedValue, prfKeyHex, salt, iv),
               reject)

\* lines 145-187 for an assertion by credential c
VerifyAsserted(store, itemId, c, hasPrf, salt, iv, encryptOk, reject) ==
  LET storedValue == StoredValue(store, itemId)
      prfKeyHex == Str(ToHex(PrfFirst(c)))
  IN IF ~Truthy(storedValue)
       THEN [outcome |-> "No password found for this biometric credential",
             ret |-> Null, store |-> store, migration |-> "none"]
     ELSE IF IsSecure(store, itemId)
       THEN LET r == VerifySecure(storedValue, hasPrf, prfKeyHex)
            IN [outcome |-> r.outcome, ret |-> r.ret, store |-> store,
                migration |-> "none"]
     ELSE [outcome |-> "ok", ret |-> storedValue,
           store |-> IF hasPrf
                       THEN Migrated(store, ScopeId(itemId), storedValue,
                                     prfKeyHex, salt, iv, encryptOk, reject)
                       ELSE store,
           migration |-> IF ~hasPrf THEN "none"
                         ELSE IF ~encryptOk THEN "encryptFailed"
                         ELSE IF reject = 0 THEN "written"
                         ELSE "writeRejected"]

\* mutant: the stored value is read and handed back before the assertion is
\* looked at
verifyDeclinedAfterRead(itemId, how) ==
  /\ last' = [op |-> "verify", itemId |-> itemId,
              outcome |-> how, ret |-> StoredValue(localStorage, itemId),
              cred |-> 0, prf |-> FALSE, migration |-> "none"]
  /\ UNCHANGED <<localStorage, credentials, rand, faults, registered, db,
                 pending, ui>>

\* navigator.credentials.get rejects (user cancels, no matching credential)
\* or yields null.
verifyDeclined(itemId, how) ==
  /\ last' = [op |-> "verify", itemId |-> itemId,
              outcome |-> how, ret |-> Null, cred |-> 0, prf |-> FALSE,
              migration |-> "none"]
  /\ UNCHANGED <<localStorage, credentials, rand, faults, registered, db,
                 pending, ui>>

\* The platform asserted credential c, with or without a PRF output.
verifyAsserted(itemId, c, hasPrf, encryptOk, reject) ==
  LET migrates == /\ Truthy(StoredValue(localStorage, itemId))
                  /\ ~IsSecure(localStorage, itemId)
                  /\ hasPrf
      r == VerifyAsserted(localStorage, itemId, c, hasPrf, rand + 1, rand + 1,
                          encryptOk, reject)
  IN /\ ~encryptOk => reject = 0
     /\ (~encryptOk \/ reject # 0) => faults < MaxFaults
     /\ c <= credentials
     /\ c \in Assertable(AllowCredentials(localStorage, itemId), credentials)
     /\ migrates => rand < MaxRand
     /\ ~migrates => (encryptOk /\ reject = 0)
     /\ faults' = IF ~encryptOk \/ reject # 0 THEN faults + 1 ELSE faults
     /\ localStorage' = r.store
     /\ rand' = IF migrates THEN rand + 1 ELSE rand
     /\ last' = [op |-> "verify", itemId |-> itemId,
                 outcome |-> r.outcome, ret |-> r.ret, cred |-> c,
                 prf |-> hasPrf, migration |-> r.migration]
     /\ UNCHANGED <<credentials, registered, db, pending, ui>>

verifyBiometrics(itemId) ==
  \/ \E how \in {"NotAllowedError", "Biometric verification failed"} :
       verifyDeclined(itemId, how)
  \/ \E c \in 1..MaxCred, hasPrf \in BOOLEAN, encryptOk \in BOOLEAN,
        reject \in 0..2 :
       verifyAsserted(itemId, c, hasPrf, encryptOk, reject)

\* ---------------------------------------------------------- clearBiometrics
\* mutant: clearing an item's record also removes the global record
ClearWritesBothScopes(itemId) ==
  (IF itemId # Undefined
     THEN <<removeItem(PassKey(itemId)), removeItem(SecureKey(itemId)),
            removeItem(NameKey(itemId)), removeItem(CredKey(itemId))>>
     ELSE <<>>)
  \o <<removeItem(PassKey(LEGACY_AUTH_ITEM_ID)),
        removeItem(SecureKey(LEGACY_AUTH_ITEM_ID)),
        removeItem(CredKey(LEGACY_AUTH_ITEM_ID))>>

\* lines 202-213
ClearWrites(itemId) ==
  IF itemId # Undefined
    THEN <<removeItem(PassKey(itemId)), removeItem(SecureKey(itemId)),
           removeItem(NameKey(itemId)), removeItem(CredKey(itemId))>>
    ELSE <<removeItem(PassKey(LEGACY_AUTH_ITEM_ID)),
           removeItem(SecureKey(LEGACY_AUTH_ITEM_ID)),
           removeItem(CredKey(LEGACY_AUTH_ITEM_ID))>>

clearBiometrics(itemId) ==
  /\ localStorage' = Written(localStorage, ClearWrites(itemId), 0)
  /\ registered' = [registered EXCEPT ![ScopeId(itemId)] = Null]
  /\ last' = [op |-> "clear", itemId |-> itemId,
              outcome |-> "ok", ret |-> Null, cred |-> 0, prf |-> FALSE,
              migration |-> "none"]
  /\ UNCHANGED <<credentials, rand, faults, db, pending, ui>>

\* mutant: only the scope's own payload is looked at
hasBiometricsRegisteredOwnOnly(store, itemId) ==
  Truthy(store[PassKey(ScopeId(itemId))])

\* lines 194-200
hasBiometricsRegistered(store, itemId) ==
  IF itemId # Undefined
    THEN Truthy(store[PassKey(itemId)])
           \/ Truthy(store[PassKey(LEGACY_AUTH_ITEM_ID)])
    ELSE Truthy(store[PassKey(LEGACY_AUTH_ITEM_ID)])

\* ------------------------------------------------------------ specification
Register ==
  \E password \in Passwords, itemId \in ItemArgs :
    \E displayName \in DisplayNames(itemId) :
      registerBiometrics(password, itemId, displayName)

Verify == \E itemId \in ItemArgs : verifyBiometrics(itemId)

Clear == \E itemId \in ItemArgs : clearBiometrics(itemId)

Next == Register \/ Verify \/ Clear

Spec == Init /\ [][Next]_vars

TypeOK ==
  /\ credentials \in 0..MaxCred
  /\ rand \in 0..MaxRand
  /\ faults \in 0..MaxFaults

\* localStorage outlives the page and is open to every script of the origin
\* and to the user: verifyBiometrics may find any content under its keys,
\* partial rows included.  StoredRows is a sample of such contents for an
\* authenticator that holds credential 1 (made for the item) and credential
\* 2 (made for the global scope).
OwnCred(id) == IF id = LEGACY_AUTH_ITEM_ID THEN 2 ELSE 1

RowPayloads(id) ==
  {Null, Str(""), Str("abc12345"),
   encryptData(Str("abc12345"), Str(ToHex(PrfFirst(OwnCred(id)))), 0, 0)}

StoredRows ==
  {store \in [Keys -> UNION {RowPayloads(id) : id \in Ids}
                        \cup {TrueFlag} \cup {bufferToBase64(RawId(OwnCred(id))) : id \in Ids}] :
     /\ \A id \in Ids :
          /\ store[PassKey(id)] \in RowPayloads(id)
          /\ store[SecureKey(id)] \in {Null, TrueFlag}
          /\ store[CredKey(id)] \in {Null, bufferToBase64(RawId(OwnCred(id)))}
     /\ \A id \in Items : store[NameKey(id)] = Null}

InitStored ==
  /\ localStorage \in StoredRows
  /\ credentials = 2
  /\ rand = 0
  /\ faults = 0
  /\ registered = [id \in Ids |-> Null]
  /\ last = NoCall
  /\ db = EmptyDb
  /\ pending = NoPending
  /\ ui = NoUi

SpecStored == InitStored /\ [][Verify]_vars

\* Re-registration: item-1 holds the record of a first, successful
\* registerBiometrics (credential 1) and nothing is cleared.
InitReRegister ==
  \E password \in Passwords, hasPrf \in BOOLEAN :
    /\ localStorage =
         Written([k \in Keys |-> Null],
                 RegisterWrites("item-1", password, "Seed", 1, hasPrf, 1, 1), 0)
    /\ credentials = 1
    /\ rand = IF hasPrf THEN 1 ELSE 0
    /\ faults = 0
    /\ registered = [id \in Ids |->
                       IF id = "item-1"
                         THEN [password |-> password, cred |-> 1]
                         ELSE Null]
    /\ last = [op |-> "register", itemId |-> "item-1", outcome |-> "ok",
               ret |-> Null, cred |-> 1, prf |-> hasPrf, migration |-> "none"]
    /\ db = EmptyDb
    /\ pending = NoPending
    /\ ui = NoUi

SpecReRegister == InitReRegister /\ [][Register \/ Verify]_vars

\* The same for a vault of two items: credential 1 was made for item-1,
\* credential 2 for item-2 and credential 3 for the global scope.
Items2 == Items \cup {"item-2"}
Ids2 == Items2 \cup {LEGACY_AUTH_ITEM_ID}
Keys2 == {PassKey(id) : id \in Ids2} \cup {SecureKey(id) : id \in Ids2}
           \cup {CredKey(id) : id \in Ids2} \cup {NameKey(id) : id \in Items2}

OwnCred2(id) == CASE id = "item-1" -> 1
                  [] id = "item-2" -> 2
                  [] OTHER -> 3

\* the rows: per id the payload absent or a plaintext one, the credential id
\* stored or not
StoredRows2 ==
  {[k \in Keys2 |->
      CASE k = PassKey(k[2]) -> IF hasPass[k[2]] THEN Str("abc12345") ELSE Null
        [] k = CredKey(k[2]) -> IF hasCred[k[2]]
                                  THEN bufferToBase64(RawId(OwnCred2(k[2])))
                                  ELSE Null
        [] OTHER -> Null] :
     hasPass \in [Ids2 -> BOOLEAN], hasCred \in [Ids2 -> BOOLEAN]}

InitItems ==
  /\ localStorage \in StoredRows2
  /\ credentials = 3
  /\ rand = 0
  /\ faults = 0
  /\ registered = [id \in Ids |-> Null]
  /\ last = NoCall
  /\ db = EmptyDb
  /\ pending = NoPending
  /\ ui = NoUi

VerifyItems == \E itemId \in Items2 \cup {Undefined} : verifyBiometrics(itemId)

SpecItems == InitItems /\ [][VerifyItems]_vars

\* ------------------------------------------------- encryptData, decryptData
\* The cipher on its own: encryptData(text, password) is called, then
\* decryptData on the envelope it returned or on an altered one.
UnitSeqs(n) == UNION {[1..k -> CodeUnits] : k \in 0..n}
Plaintexts == {[units |-> u] : u \in UnitSeqs(MaxLen)}
CipherPasswords == {[units |-> u] : u \in [1..1 -> CodeUnits]}

\* ciphertext bytes with a bit flipped: no longer the output of a sealing
FlipBit(bytes) == [flipped |-> bytes]

Alterations == {"none", "ciphertext", "iv", "salt",
                "invalidJson", "missingField", "invalidBase64"}

\* the decryptData argument made of envelope e; salt and iv 0 are never drawn
Altered(e, how) ==
  CASE how = "ciphertext" ->
         [e EXCEPT !.ciphertext =
            arrayBufferToBase64(FlipBit(base64ToArrayBuffer(e.ciphertext)))]
    [] how = "iv" -> [e EXCEPT !.iv = arrayBufferToBase64(0)]
    [] how = "salt" -> [e EXCEPT !.salt = arrayBufferToBase64(0)]
    [] how = "invalidJson" -> Str("{")
    [] how = "missingField" -> [ciphertext |-> e.ciphertext, iv |-> e.iv]
    [] how = "invalidBase64" -> [e EXCEPT !.salt = Str("%")]
    [] OTHER -> e

encryptCall(text, password) ==
  /\ rand < MaxRand
  /\ rand' = rand + 1
  /\ last' = [op |-> "encrypt", text |-> text, password |-> password,
              envelope |-> encryptData(text, password, rand + 1, rand + 1),
              altered |-> "none", password2 |-> password,
              outcome |-> "ok",
              ret |-> encryptData(text, password, rand + 1, rand + 1)]
  /\ UNCHANGED <<localStorage, credentials, faults, registered, db, pending,
                 ui>>

decryptCall(how, password2) ==
  LET d == decryptData(Altered(last.envelope, how), password2)
  IN /\ last.op \in {"encrypt", "decrypt"}
     /\ last' = [last EXCEPT !.op = "decrypt", !.altered = how,
                             !.password2 = password2,
                             !.outcome = IF d.ok THEN "ok" ELSE d.error,
                             !.ret = d.value]
     /\ UNCHANGED <<localStorage, credentials, rand, faults, registered, db,
                    pending, ui>>

Encrypt == \E text \in Plaintexts, password \in CipherPasswords :
             encryptCall(text, password)

Decrypt == \E how \in Alterations, password2 \in CipherPasswords :
             decryptCall(how, password2)

SpecCipher == Init /\ [][Encrypt \/ Decrypt]_vars

\* ------------------------------------------------- exportData, importData
\* rows of the two tables
VaultRow(id, title) == [id |-> id, title |-> title]
CategoryRow(name, order) == [name |-> name, order |-> order]

\* table.toArray(): the rows in primary key order
RECURSIVE ToArray(_, _)
ToArray(table, keys) ==
  IF keys = <<>> THEN <<>>
  ELSE (IF table[Head(keys)] # Null THEN <<table[Head(keys)]>> ELSE <<>>)
         \o ToArray(table, Tail(keys))

\* lines 72-80: the backup object, whose JSON text is the record itself
Backup(tables) ==
  [vault_items |-> ToArray(tables.vault_items, <<"v1", "v2">>),
   categories |-> ToArray(tables.categories, <<"Seeds">>),
   exportedAt |-> "t"]

\* a password argument that is omitted or ''
NoPassword(password) == password \in {Null, Str("")}

\* exportData(password?) with the salt and iv encryptData draws
ExportData(tables, password, salt, iv) ==
  IF ~NoPassword(password)
    THEN [version |-> 2, encrypted |-> TRUE,
          data |-> encryptData(Backup(tables), password, salt, iv)]
    ELSE Backup(tables)

RECURSIVE PutAll(_, _, _)
\* table.put(row) for every row of the array, in order
PutAll(table, rows, key) ==
  IF rows = <<>> THEN table
  ELSE PutAll([table EXCEPT ![Head(rows)[key]] = Head(rows)], Tail(rows), key)

\* line 98: parsed.encrypted && parsed.data
EncryptedWrapper(parsed) ==
  /\ "encrypted" \in DOMAIN parsed /\ parsed.encrypted
  /\ "data" \in DOMAIN parsed /\ parsed.data # Str("")

Failed(tables, error, decrypts) ==
  [outcome |-> error, count |-> 0, tables |-> tables, decrypts |-> decrypts]

\* put(row) throws for a row without the primary key of its table
Keyless(rows, key) == \E i \in 1..Len(rows) : key \notin DOMAIN rows[i]

RECURSIVE PutUntilThrow(_, _, _)
\* the puts of a loop up to the one that throws
PutUntilThrow(table, rows, key) ==
  IF rows = <<>> \/ key \notin DOMAIN Head(rows) THEN table
  ELSE PutUntilThrow([table EXCEPT ![Head(rows)[key]] = Head(rows)],
                     Tail(rows), key)

\* mutant: the puts run outside a transaction, so those made before the
\* failure stay
RestoreWithoutTransaction(tables, data, decrypts, aborted) ==
  IF "vault_items" \notin DOMAIN data \/ "categories" \notin DOMAIN data
    THEN Failed(tables, "Invalid backup file format", decrypts)
  ELSE IF Keyless(data.vault_items, "id") \/ Keyless(data.categories, "name")
    THEN Failed([vault_items |->
                   PutUntilThrow(tables.vault_items, data.vault_items, "id"),
                 categories |-> tables.categories],
                "DataError", decrypts)
  ELSE IF aborted
    THEN Failed([vault_items |->
                   PutAll(tables.vault_items, data.vault_items, "id"),
                 categories |-> tables.categories],
                "AbortError", decrypts)
  ELSE [outcome |-> "ok", count |-> Len(data.vault_items),
        tables |-> [vault_items |->
                      PutAll(tables.vault_items, data.vault_items, "id"),
                    categories |->
                      PutAll(tables.categories, data.categories, "name")],
        decrypts |-> decrypts]

\* lines 108-122 on the backup object data.  A put that throws (a row
\* without its key, or the storage failing: aborted) rejects the scope of
\* the transaction, and Dexie rolls the transaction back.
Restore(tables, data, decrypts, aborted) ==
  IF "vault_items" \notin DOMAIN data \/ "categories" \notin DOMAIN data
    THEN Failed(tables, "Invalid backup file format", decrypts)
  ELSE IF Keyless(data.vault_items, "id") \/ Keyless(data.categories, "name")
    THEN Failed(tables, "DataError", decrypts)
  ELSE IF aborted THEN Failed(tables, "AbortError", decrypts)
  ELSE [outcome |-> "ok", count |-> Len(data.vault_items),
        tables |-> [vault_items |->
                      PutAll(tables.vault_items, data.vault_items, "id"),
                    categories |->
                      PutAll(tables.categories, data.categories, "name")],
        decrypts |-> decrypts]

\* mutant: the wrapper is decrypted before the password is looked at
ImportDataDecryptsFirst(tables, jsonString, password, aborted) ==
  IF ~IsJsonObject(jsonString) THEN Failed(tables, "SyntaxError", FALSE)
  ELSE IF EncryptedWrapper(jsonString)
    THEN LET d == decryptData(jsonString.data, password)
         IN IF ~d.ok THEN Failed(tables, d.error, TRUE)
            ELSE IF NoPassword(password)
              THEN Failed(tables, "PASSWORD_REQUIRED", TRUE)
            ELSE IF ~IsJsonObject(d.value)
              THEN Failed(tables, "SyntaxError", TRUE)
            ELSE Restore(tables, d.value, TRUE, aborted)
  ELSE Restore(tables, jsonString, FALSE, aborted)

\* importData(jsonString, password?), lines 94-123; decrypts tells whether
\* decryptData was called
ImportData(tables, jsonString, password, aborted) ==
  IF ~IsJsonObject(jsonString) THEN Failed(tables, "SyntaxError", FALSE)
  ELSE IF EncryptedWrapper(jsonString)
    THEN IF NoPassword(password)
           THEN Failed(tables, "PASSWORD_REQUIRED", FALSE)
         ELSE LET d == decryptData(jsonString.data, password)
              IN IF ~d.ok THEN Failed(tables, d.error, TRUE)
                 ELSE IF ~IsJsonObject(d.value)
                   THEN Failed(tables, "SyntaxError", TRUE)
                 ELSE Restore(tables, d.value, TRUE, aborted)
  ELSE Restore(tables, jsonString, FALSE, aborted)

exportData(password) ==
  /\ ~NoPassword(password) => rand < MaxRand
  /\ rand' = IF NoPassword(password) THEN rand ELSE rand + 1
  /\ last' = [op |-> "export", jsonString |-> Null, password |-> password,
              outcome |-> "ok", decrypts |-> FALSE,
              ret |-> ExportData(db, password, rand + 1, rand + 1)]
  /\ UNCHANGED <<localStorage, credentials, faults, registered, db, pending,
                 ui>>

importData(jsonString, password, aborted) ==
  LET r == ImportData(db, jsonString, password, aborted)
  IN /\ aborted => (faults < MaxFaults /\ r.outcome = "AbortError")
     /\ faults' = IF aborted THEN faults + 1 ELSE faults
     /\ db' = r.tables
     /\ last' = [op |-> "import", jsonString |-> jsonString,
                 password |-> password, outcome |-> r.outcome,
                 decrypts |-> r.decrypts,
                 ret |-> IF r.outcome = "ok" THEN [count |-> r.count] ELSE Null]
     /\ UNCHANGED <<localStorage, credentials, rand, registered, pending, ui>>

\* tables a vault can hold and the files made of them
SampleTables ==
  {[vault_items |-> [id \in VaultIds |-> IF id \in ids
                                          THEN VaultRow(id, "A") ELSE Null],
    categories |-> [name \in CategoryNames |-> IF ids # {}
                                                THEN CategoryRow(name, 0)
                                                ELSE Null]] :
     ids \in SUBSET VaultIds}

\* what exportData('abc12345') and exportData() made of them, with salt and
\* iv 0, which this run does not draw again
ExportFiles ==
  {ExportData(t, password, 0, 0) :
     t \in SampleTables, password \in {Null, Str("abc12345")}}

\* files that are no export: invalid JSON, an object without the tables, a
\* backup with one row twice, a backup whose second row has no id, wrappers
\* without data, with an empty data, with encrypted false, and with a data
\* that is no envelope
OtherFiles ==
  {Str("{"),
   [exportedAt |-> "t"],
   [vault_items |-> <<VaultRow("v1", "B"), [title |-> "C"]>>,
    categories |-> <<CategoryRow("Seeds", 1)>>, exportedAt |-> "t"],
   [vault_items |-> <<VaultRow("v1", "A"), VaultRow("v1", "B")>>,
    categories |-> <<CategoryRow("Seeds", 1)>>, exportedAt |-> "t"],
   [version |-> 2, encrypted |-> TRUE],
   [version |-> 2, encrypted |-> TRUE, data |-> Str("")],
   [version |-> 2, encrypted |-> FALSE,
    data |-> encryptData(Backup(EmptyDb), Str("abc12345"), 0, 0)],
   [version |-> 2, encrypted |-> TRUE, data |-> Str("{")]}

ImportPasswords == {Null, Str("")} \cup {Str(p) : p \in Passwords}

InitImport ==
  /\ localStorage = [k \in Keys |-> Null]
  /\ credentials = 0
  /\ rand = 0
  /\ faults = 0
  /\ registered = [id \in Ids |-> Null]
  /\ last = NoCall
  /\ db \in SampleTables
  /\ pending = NoPending
  /\ ui = NoUi

Export == \E password \in ImportPasswords : exportData(password)

Import ==
  \E jsonString \in ExportFiles \cup OtherFiles,
     password \in ImportPasswords, aborted \in BOOLEAN :
    importData(jsonString, password, aborted)

SpecImport == InitImport /\ [][Export \/ Import]_vars

\* ------------------------------------------------- the vault and its views
\* CreateItem, Scanner and ItemView over vault_items and the biometric
\* records: a vault of up to two items.  crypto.randomUUID() gives the next
\* id not yet in the table, new Date().toISOString() a time later than every
\* createdAt in it.
MIN_PASSWORD_LENGTH == 8

Seeds == {Str("abandon ability able")}
NewPasswords == Passwords \cup {"hunter2hunter2"}

\* password.length
Length(password) ==
  CASE password = "p@ss" -> 4
    [] password = "abc12345" -> 8
    [] password = "hunter2hunter2" -> 14
    [] OTHER -> 0

Item(id, encryptedData, createdAt, hasBiometrics) ==
  [id |-> id, title |-> "Seed", category |-> "DeFi",
   encryptedData |-> encryptedData, createdAt |-> createdAt,
   hasBiometrics |-> hasBiometrics]

Stored(table) == {id \in DOMAIN table : table[id] # Null}
randomUUID(table) == CHOOSE id \in DOMAIN table \ Stored(table) :
                       \A other \in DOMAIN table \ Stored(table) :
                         id = "item-1" \/ other # "item-1"
Now(table) == Cardinality(Stored(table)) + 1

\* db.vault_items.orderBy('createdAt').last()
Latest(table) ==
  IF Stored(table) = {} THEN Null
  ELSE table[CHOOSE id \in Stored(table) :
               \A other \in Stored(table) :
                 table[other].createdAt <= table[id].createdAt]

\* db.vault_items.update(id, changes): no row, no change
Update(table, id, field, value) ==
  IF id \in Stored(table)
    THEN [table EXCEPT ![id] = [table[id] EXCEPT ![field] = value]]
    ELSE table

\* How a registerBiometrics call of a handler ends: the prompt is declined,
\* or a credential is created, with a PRF output or without one, and the
\* record is written.
RegisterEnds == {"declined", "legacy", "secure"}

RegisterResult(store, password, itemId, displayName, how, c, nonce) ==
  IF how = "declined" THEN [ok |-> FALSE, store |-> store]
  ELSE [ok |-> TRUE,
        store |-> Written(store,
                          RegisterWrites(itemId, password, displayName, c,
                                         how = "secure", nonce, nonce),
                          0)]

\* the budget a handler needs: credentials created and salt/iv pairs drawn
CanDraw(creates, draws) ==
  /\ credentials + creates <= MaxCred
  /\ rand + draws <= MaxRand

Creates(how) == IF how = "declined" THEN 0 ELSE 1
Draws(how) == IF how = "secure" THEN 1 ELSE 0

VaultCall(op, itemId, outcome, ret, cred, prf) ==
  [op |-> op, itemId |-> itemId, outcome |-> outcome, ret |-> ret,
   cred |-> cred, prf |-> prf, migration |-> "none"]

\* CreateItem.handleFormSubmit, lines 299-343
handleFormSubmit(seed, password, isBioAvailable) ==
  LET table == db.vault_items
      id == randomUUID(table)
      encrypted == encryptData(seed, Str(password), rand + 1, rand + 1)
  IN /\ ~ui.mounted
     /\ Stored(table) # DOMAIN table
     /\ CanDraw(0, 1)
     /\ rand' = rand + 1
     /\ db' = [db EXCEPT !.vault_items[id] =
                           Item(id, encrypted, Now(table), FALSE)]
     /\ ui' = [mounted |-> TRUE, component |-> "CreateItem",
               step |-> IF isBioAvailable THEN "biometrics" ELSE "qr",
               password |-> password]
     /\ last' = VaultCall("handleFormSubmit", id, "ok", Null, 0, FALSE)
     /\ UNCHANGED <<localStorage, credentials, faults, registered, pending>>

\* CreateItem.handleRegisterBio, lines 345-359: the password of the form is
\* registered without an item id
handleRegisterBio(how) ==
  LET r == RegisterResult(localStorage, ui.password, Undefined, Undefined,
                          how, credentials + 1, rand + 1)
      latest == Latest(db.vault_items)
  IN /\ ui.mounted /\ ui.component = "CreateItem" /\ ui.step = "biometrics"
     /\ CanDraw(Creates(how), Draws(how))
     /\ credentials' = credentials + Creates(how)
     /\ rand' = rand + Draws(how)
     /\ localStorage' = r.store
     /\ db' = IF r.ok /\ latest # Null
                THEN [db EXCEPT !.vault_items =
                        Update(@, latest.id, "hasBiometrics", TRUE)]
                ELSE db
     /\ ui' = [ui EXCEPT !.step = "qr"]
     /\ last' = VaultCall("handleRegisterBio",
                          IF latest # Null THEN latest.id ELSE Undefined,
                          IF r.ok THEN "ok" ELSE "NotAllowedError",
                          Null, 0, how = "secure")
     /\ UNCHANGED <<faults, registered, pending>>

\* the skip and done buttons of CreateItem, and the back button of ItemView
onBack ==
  /\ ui.mounted
  /\ ui' = NoUi
  /\ last' = VaultCall("onBack", Undefined, "ok", Null, 0, FALSE)
  /\ UNCHANGED <<localStorage, credentials, rand, faults, registered, db,
                 pending>>

\* The QR codes at hand: the envelope of the seed under each password, as
\* CreateItem printed it.
QrCodes == {encryptData(seed, Str(p), 0, 0) : seed \in Seeds, p \in Passwords}

\* Scanner.handleDecrypt and handleSave, Dashboard.tsx lines 921-955, for a
\* scanned code that the typed password decrypts
handleSave(scanned, password, enableBio, how) ==
  LET table == db.vault_items
      id == randomUUID(table)
      r == RegisterResult(localStorage, password, id, "Seed", how,
                          credentials + 1, rand + 1)
      registers == IF enableBio THEN how ELSE "declined"
  IN /\ ~ui.mounted
     /\ Stored(table) # DOMAIN table
     /\ decryptData(scanned, Str(password)).ok
     /\ ~enableBio => how = "declined"
     /\ CanDraw(Creates(registers), Draws(registers))
     /\ credentials' = credentials + Creates(registers)
     /\ rand' = rand + Draws(registers)
     /\ localStorage' = IF enableBio THEN r.store ELSE localStorage
     /\ db' = IF enableBio /\ ~r.ok THEN db
              ELSE [db EXCEPT !.vault_items[id] =
                                Item(id, scanned, Now(table), enableBio)]
     /\ last' = VaultCall("handleSave", id,
                          IF enableBio /\ ~r.ok THEN "NotAllowedError" ELSE "ok",
                          Null, 0, registers = "secure")
     /\ UNCHANGED <<faults, registered, pending, ui>>

\* Dashboard onSelectItem: ItemView is mounted with the row as its item prop
onSelectItem(id) ==
  /\ ~ui.mounted
  /\ id \in Stored(db.vault_items)
  /\ ui' = [mounted |-> TRUE, component |-> "ItemView",
            item |-> db.vault_items[id], decryptedSeed |-> Null]
  /\ last' = VaultCall("onSelectItem", id, "ok", Null, 0, FALSE)
  /\ UNCHANGED <<localStorage, credentials, rand, faults, registered, db,
                 pending>>

InItemView == ui.mounted /\ ui.component = "ItemView"

\* ItemView.handleManualDecrypt, lines 275-284
handleManualDecrypt(password) ==
  LET d == decryptData(ui.item.encryptedData, Str(password))
  IN /\ InItemView
     /\ ui.decryptedSeed = Null
     /\ ui' = IF d.ok THEN [ui EXCEPT !.decryptedSeed = d.value] ELSE ui
     /\ last' = VaultCall("handleManualDecrypt", ui.item.id,
                          IF d.ok THEN "ok" ELSE d.error, Null, 0, FALSE)
     /\ UNCHANGED <<localStorage, credentials, rand, faults, registered, db,
                    pending>>

\* ItemView.handleBioDecrypt, lines 286-298, once the platform asserted
\* credential c: verifyBiometrics(item.id), then decryptData with what it
\* returned.  last keeps how verifyBiometrics ended and what it returned.
handleBioDecrypt(c, hasPrf) ==
  LET id == ui.item.id
      migrates == /\ Truthy(StoredValue(localStorage, id))
                  /\ ~IsSecure(localStorage, id)
                  /\ hasPrf
      r == VerifyAsserted(localStorage, id, c, hasPrf, rand + 1, rand + 1,
                          TRUE, 0)
      d == IF r.outcome = "ok" THEN decryptData(ui.item.encryptedData, r.ret)
           ELSE Thrown(r.outcome)
  IN /\ InItemView
     /\ ui.decryptedSeed = Null
     /\ ui.item.hasBiometrics
     /\ c \in Assertable(AllowCredentials(localStorage, id), credentials)
     /\ CanDraw(0, IF migrates THEN 1 ELSE 0)
     /\ rand' = IF migrates THEN rand + 1 ELSE rand
     /\ localStorage' = r.store
     /\ ui' = IF d.ok THEN [ui EXCEPT !.decryptedSeed = d.value] ELSE ui
     /\ last' = VaultCall("handleBioDecrypt", id, r.outcome, r.ret, c, hasPrf)
     /\ UNCHANGED <<credentials, faults, registered, db, pending>>

\* ItemView.handleEnableBio, lines 300-310, with the password typed into the
\* form (the button asks for 8 characters, line 466); the user types the
\* password the item is stored under
handleEnableBio(password, how) ==
  LET id == ui.item.id
      r == RegisterResult(localStorage, password, id, "Seed", how,
                          credentials + 1, rand + 1)
  IN /\ InItemView
     /\ ui.decryptedSeed = Null
     /\ ~ui.item.hasBiometrics
     /\ Length(password) >= MIN_PASSWORD_LENGTH
     /\ decryptData(db.vault_items[id].encryptedData, Str(password)).ok
     /\ CanDraw(Creates(how), Draws(how))
     /\ credentials' = credentials + Creates(how)
     /\ rand' = rand + Draws(how)
     /\ localStorage' = r.store
     /\ db' = IF r.ok
                THEN [db EXCEPT !.vault_items =
                        Update(@, id, "hasBiometrics", TRUE)]
                ELSE db
     /\ ui' = IF r.ok THEN NoUi ELSE ui
     /\ last' = VaultCall("handleEnableBio", id,
                          IF r.ok THEN "ok" ELSE "NotAllowedError",
                          Null, 0, how = "secure")
     /\ UNCHANGED <<faults, registered, pending>>

\* lines 333-340: encryptData, vault_items.update, then registerBiometrics
\* when the item prop has hasBiometrics
ChangePassword(table, store, item, seed, newPassword, how, c, nonce) ==
  LET updated == Update(table, item.id, "encryptedData",
                        encryptData(seed, Str(newPassword), nonce, nonce))
      r == RegisterResult(store, newPassword, item.id, "Seed", how, c, nonce + 1)
  IN IF item.hasBiometrics
       THEN [ok |-> r.ok, table |-> updated, store |-> r.store]
       ELSE [ok |-> TRUE, table |-> updated, store |-> store]

\* ItemView.handleChangePassword, lines 320-351
handleChangePassword(newPassword, confirmNewPassword, how) ==
  LET registers == IF ui.item.hasBiometrics THEN how ELSE "declined"
      r == ChangePassword(db.vault_items, localStorage, ui.item,
                          ui.decryptedSeed, newPassword, how,
                          credentials + 1, rand + 1)
  IN /\ InItemView
     /\ ui.decryptedSeed # Null
     /\ ~ui.item.hasBiometrics => how = "declined"
     /\ IF Length(newPassword) < MIN_PASSWORD_LENGTH
          THEN /\ last' = VaultCall("handleChangePassword", ui.item.id,
                                    "tooShort", Null, 0, FALSE)
               /\ how = "declined"
               /\ UNCHANGED <<localStorage, credentials, rand, db, ui>>
        ELSE IF newPassword # confirmNewPassword
          THEN /\ last' = VaultCall("handleChangePassword", ui.item.id,
                                    "mismatch", Null, 0, FALSE)
               /\ how = "declined"
               /\ UNCHANGED <<localStorage, credentials, rand, db, ui>>
        ELSE /\ CanDraw(Creates(registers), 1 + Draws(registers))
             /\ credentials' = credentials + Creates(registers)
             /\ rand' = rand + 1 + Draws(registers)
             /\ localStorage' = r.store
             /\ db' = [db EXCEPT !.vault_items = r.table]
             /\ ui' = IF r.ok THEN [ui EXCEPT !.decryptedSeed = Null] ELSE ui
             /\ last' = VaultCall("handleChangePassword", ui.item.id,
                                  IF r.ok THEN "ok" ELSE "NotAllowedError",
                                  Null, 0, registers = "secure")
     /\ UNCHANGED <<faults, registered, pending>>

InitVault ==
  /\ localStorage = [k \in Keys2 |-> Null]
  /\ credentials = 0
  /\ rand = 0
  /\ faults = 0
  /\ registered = [id \in Ids |-> Null]
  /\ last = NoCall
  /\ db = [vault_items |-> [id \in Items2 |-> Null],
           categories |-> [name \in CategoryNames |-> Null]]
  /\ pending = NoPending
  /\ ui = NoUi

Create ==
  \/ \E seed \in Seeds, password \in Passwords, isBioAvailable \in BOOLEAN :
       handleFormSubmit(seed, password, isBioAvailable)
  \/ \E how \in RegisterEnds : handleRegisterBio(how)

RestoreFromQr ==
  \E scanned \in QrCodes, password \in Passwords, enableBio \in BOOLEAN,
     how \in RegisterEnds :
    handleSave(scanned, password, enableBio, how)

Navigate == onBack \/ \E id \in Items2 : onSelectItem(id)

Unlock ==
  \/ \E password \in Passwords : handleManualDecrypt(password)
  \/ \E c \in 1..MaxCred, hasPrf \in BOOLEAN : handleBioDecrypt(c, hasPrf)

EnableBio ==
  \E password \in NewPasswords, how \in RegisterEnds :
    handleEnableBio(password, how)

ChangeThePassword ==
  \E newPassword \in NewPasswords, confirmNewPassword \in NewPasswords,
     how \in RegisterEnds :
    handleChangePassword(newPassword, confirmNewPassword, how)

NextVault ==
  Create \/ RestoreFromQr \/ Navigate \/ Unlock \/ EnableBio
    \/ ChangeThePassword

SpecVault == InitVault /\ [][NextVault]_vars


\* ------------------------------------------------ ItemView, step by step
\* One mounted ItemView with its timers; handleBioDecrypt is followed
\* through its two awaits.  A timer is [id, remaining], remaining in minutes;
\* the browser runs a timer when its time is up, before more time passes.
AUTO_LOCK_MINUTES == 2

BIO_FAILED == Str("Biometric authentication failed. Enter the password.")

ItemViewState(item) ==
  [mounted |-> TRUE, component |-> "ItemView", item |-> item,
   decryptedSeed |-> Null, error |-> Null, isVerifying |-> FALSE,
   showQr |-> FALSE, timers |-> {}, effectTimer |-> 0]

\* window.setTimeout: a handle no pending timer has
setTimeout(timers) ==
  CHOOSE id \in 1..(Cardinality(timers) + 1) : \A t \in timers : t.id # id

clearTimeout(timers, id) == {t \in timers : t.id # id}

\* mutant: the cleanup of the auto-lock effect does not clear its timer
setDecryptedSeedKeepsTimer(u, seed) ==
  IF ~u.mounted \/ seed = u.decryptedSeed THEN u
  ELSE IF Truthy(u.decryptedSeed)
    THEN [u EXCEPT !.decryptedSeed = Null, !.showQr = FALSE]
  ELSE IF Truthy(seed)
    THEN [u EXCEPT !.decryptedSeed = seed,
                   !.timers = @ \cup {[id |-> setTimeout(u.timers),
                                       remaining |-> AUTO_LOCK_MINUTES]},
                   !.effectTimer = setTimeout(u.timers)]
  ELSE [u EXCEPT !.decryptedSeed = seed]

\* setDecryptedSeed(seed) and the effect of lines 244-256 that the render
\* after it runs: the cleanup of the effect of a truthy seed clears its timer
\* and sets decryptedSeed null and showQr false; the effect of a truthy seed
\* starts a timer.  An unmounted view and an unchanged value do nothing.
setDecryptedSeed(u, seed) ==
  IF ~u.mounted \/ seed = u.decryptedSeed THEN u
  ELSE IF Truthy(u.decryptedSeed)
    THEN [u EXCEPT !.decryptedSeed = Null, !.showQr = FALSE,
                   !.timers = clearTimeout(@, u.effectTimer),
                   !.effectTimer = 0]
  ELSE IF Truthy(seed)
    THEN [u EXCEPT !.decryptedSeed = seed,
                   !.timers = @ \cup {[id |-> setTimeout(u.timers),
                                       remaining |-> AUTO_LOCK_MINUTES]},
                   !.effectTimer = setTimeout(u.timers)]
  ELSE [u EXCEPT !.decryptedSeed = seed]

setError(u, error) == IF u.mounted THEN [u EXCEPT !.error = error] ELSE u
setIsVerifying(u, b) == IF u.mounted THEN [u EXCEPT !.isVerifying = b] ELSE u
setShowQr(u, b) == IF u.mounted THEN [u EXCEPT !.showQr = b] ELSE u

ViewEvent(op, outcome) == VaultCall(op, "item-1", outcome, Null, 0, FALSE)

BioCall(awaits, bioPassword) ==
  [op |-> "handleBioDecrypt", awaits |-> awaits, bioPassword |-> bioPassword]

\* the locked card of line 417 is rendered, the password form in it
FormRendered == ui.mounted /\ ~Truthy(ui.decryptedSeed)
\* the secret is on the screen
Displayed == ui.mounted /\ Truthy(ui.decryptedSeed)

\* lines 275-284, the password form submitted
manualDecrypt(password) ==
  LET d == decryptData(ui.item.encryptedData, Str(password))
  IN /\ FormRendered
     /\ ui' = IF d.ok THEN setDecryptedSeed(setError(ui, Null), d.value)
              ELSE setError(ui, Str(d.error))
     /\ last' = ViewEvent("handleManualDecrypt",
                          IF d.ok THEN "ok" ELSE d.error)
     /\ UNCHANGED <<localStorage, credentials, rand, faults, registered, db,
                    pending>>

\* lines 287-290: the biometric button is pressed (it is disabled while
\* isVerifying) and verifyBiometrics(item.id) is awaited
bioDecryptStarts ==
  /\ FormRendered
  /\ ui.item.hasBiometrics
  /\ ~ui.isVerifying
  /\ ui' = setError(setIsVerifying(ui, TRUE), Null)
  /\ pending' = Append(pending, BioCall("verifyBiometrics", Null))
  /\ last' = ViewEvent("onClick", "ok")
  /\ UNCHANGED <<localStorage, credentials, rand, faults, registered, db>>

\* mutant: the catch block calls the handler again
bioDecryptRetries(u) ==
  [ui |-> setError(u, BIO_FAILED),
   pending |-> <<BioCall("verifyBiometrics", Null)>>]

\* lines 293-297: catch and finally
bioDecryptCatch(u) ==
  [ui |-> setIsVerifying(setError(u, BIO_FAILED), FALSE),
   pending |-> <<>>]

\* verifyBiometrics rejects: the prompt is declined
bioVerifyRejects ==
  /\ pending # <<>> /\ Head(pending).awaits = "verifyBiometrics"
  /\ ui' = bioDecryptCatch(ui).ui
  /\ pending' = bioDecryptCatch(ui).pending
  /\ last' = ViewEvent("handleBioDecrypt", "NotAllowedError")
  /\ UNCHANGED <<localStorage, credentials, rand, faults, registered, db>>

\* verifyBiometrics got an assertion by credential c: it throws or returns
\* bioPassword, and decryptData(item.encryptedData, bioPassword) is awaited
bioVerifyAsserted(c, hasPrf) ==
  LET id == ui.item.id
      migrates == /\ Truthy(StoredValue(localStorage, id))
                  /\ ~IsSecure(localStorage, id)
                  /\ hasPrf
      r == VerifyAsserted(localStorage, id, c, hasPrf, rand + 1, rand + 1,
                          TRUE, 0)
  IN /\ pending # <<>> /\ Head(pending).awaits = "verifyBiometrics"
     /\ c \in Assertable(AllowCredentials(localStorage, id), credentials)
     /\ migrates => rand < MaxRand
     /\ rand' = IF migrates THEN rand + 1 ELSE rand
     /\ localStorage' = r.store
     /\ IF r.outcome = "ok"
          THEN /\ pending' = <<BioCall("decryptData", r.ret)>>
               /\ UNCHANGED <<ui, last>>
          ELSE /\ ui' = bioDecryptCatch(ui).ui
               /\ pending' = bioDecryptCatch(ui).pending
               /\ last' = ViewEvent("handleBioDecrypt", r.outcome)
     /\ UNCHANGED <<credentials, faults, registered, db>>

\* decryptData settles: lines 291-292, or the catch
bioDecryptSettles ==
  LET d == decryptData(ui.item.encryptedData, Head(pending).bioPassword)
  IN /\ pending # <<>> /\ Head(pending).awaits = "decryptData"
     /\ IF d.ok
          THEN /\ ui' = setIsVerifying(setDecryptedSeed(ui, d.value), FALSE)
               /\ pending' = <<>>
          ELSE /\ ui' = bioDecryptCatch(ui).ui
               /\ pending' = bioDecryptCatch(ui).pending
     /\ last' = ViewEvent("handleBioDecrypt", IF d.ok THEN "ok" ELSE d.error)
     /\ UNCHANGED <<localStorage, credentials, rand, faults, registered, db>>

\* the lock button of line 520
lock ==
  /\ Displayed
  /\ ui' = setDecryptedSeed(ui, Null)
  /\ last' = ViewEvent("lock", "ok")
  /\ UNCHANGED <<localStorage, credentials, rand, faults, registered, db,
                 pending>>

\* the QR button of line 496
toggleQr ==
  /\ Displayed
  /\ ui' = setShowQr(ui, ~ui.showQr)
  /\ last' = ViewEvent("toggleQr", "ok")
  /\ UNCHANGED <<localStorage, credentials, rand, faults, registered, db,
                 pending>>

\* the view is left (onBack, or the App locks): the cleanup of the effect
\* runs and the state of the component is gone
unmount ==
  /\ ui.mounted
  /\ ui' = [ItemViewState(ui.item) EXCEPT
              !.mounted = FALSE,
              !.timers = IF Truthy(ui.decryptedSeed)
                           THEN clearTimeout(ui.timers, ui.effectTimer)
                           ELSE ui.timers]
  /\ last' = ViewEvent("unmount", "ok")
  /\ UNCHANGED <<localStorage, credentials, rand, faults, registered, db,
                 pending>>

\* a minute passes
tick ==
  /\ ui.timers # {}
  /\ \A t \in ui.timers : t.remaining > 0
  /\ ui' = [ui EXCEPT !.timers =
              {[t EXCEPT !.remaining = @ - 1] : t \in ui.timers}]
  /\ UNCHANGED <<localStorage, credentials, rand, faults, registered, last,
                 db, pending>>

\* lines 246-249: the callback of a timer whose time is up
autoLock ==
  \E t \in ui.timers :
    /\ t.remaining = 0
    /\ ui' = setShowQr(setDecryptedSeed([ui EXCEPT !.timers = @ \ {t}], Null),
                       FALSE)
    /\ last' = ViewEvent("setTimeout", "ok")
    /\ UNCHANGED <<localStorage, credentials, rand, faults, registered, db,
                   pending>>

\* item-1 was stored under 'abc12345' with biometrics; its Legacy record
\* holds that password or, out of step, another one
InitItemView ==
  \E held \in Passwords, seed \in Seeds :
    LET item == Item("item-1", encryptData(seed, Str("abc12345"), 0, 0), 1, TRUE)
    IN /\ localStorage =
            Written([k \in Keys |-> Null],
                    RegisterWrites("item-1", held, "Seed", 1, FALSE, 0, 0), 0)
       /\ credentials = 1
       /\ rand = 0
       /\ faults = 0
       /\ registered = [id \in Ids |-> Null]
       /\ last = NoCall
       /\ db = [vault_items |-> [id \in Items |-> item],
                categories |-> [name \in CategoryNames |-> Null]]
       /\ pending = NoPending
       /\ ui = ItemViewState(item)

ManualDecrypt == \E password \in Passwords : manualDecrypt(password)

BioDecrypt ==
  \/ bioDecryptStarts
  \/ bioVerifyRejects
  \/ \E c \in 1..MaxCred, hasPrf \in BOOLEAN : bioVerifyAsserted(c, hasPrf)
  \/ bioDecryptSettles

NextItemView ==
  ManualDecrypt \/ BioDecrypt \/ lock \/ toggleQr \/ unmount \/ tick
    \/ autoLock

SpecItemView == InitItemView /\ [][NextItemView]_vars

\* time passes and the browser runs the timers that are due
SpecItemViewLive == SpecItemView /\ WF_vars(tick) /\ WF_vars(autoLock)


\* ------------------------------------------------- App and useInactivity
\* The App with its inactivity hook.  useInactivity gets a new callback with
\* every render of App, so its effect (lines 15-32) runs again after every
\* render: the cleanup of the previous run, then the listeners and
\* resetTimer().  A timer keeps the isLocked its callback closed over.
INACTIVITY_MINUTES == 2
MaxCalls == 2       \* async calls of one run that are pending or settled

ActivityEvents ==
  {"mousedown", "mousemove", "keypress", "scroll", "touchstart"}

Views == {<<"dashboard", Null>>, <<"create", Null>>, <<"scan", Null>>,
          <<"view", Str("item-1")>>}

\* mutant: resetTimer leaves the pending timer alone
resetTimerKeepsPending(u) ==
  [u EXCEPT !.timers = @ \cup {[id |-> setTimeout(u.timers),
                                remaining |-> INACTIVITY_MINUTES,
                                isLocked |-> u.isLocked]},
            !.timerRef = setTimeout(u.timers)]

\* useInactivity lines 6-13
resetTimer(u) ==
  LET cleared == IF u.timerRef # 0 THEN clearTimeout(u.timers, u.timerRef)
                 ELSE u.timers
  IN [u EXCEPT !.timers = cleared \cup {[id |-> setTimeout(cleared),
                                         remaining |-> INACTIVITY_MINUTES,
                                         isLocked |-> u.isLocked]},
               !.timerRef = setTimeout(cleared)]

\* lines 25-31, the cleanup of the effect
Cleanup(u) ==
  [u EXCEPT !.timers = IF u.timerRef # 0 THEN clearTimeout(@, u.timerRef)
                       ELSE @,
            !.listeners = [e \in ActivityEvents |-> @[e] - 1]]

\* lines 16-23, the effect
Effect(u) ==
  resetTimer([u EXCEPT !.listeners = [e \in ActivityEvents |-> @[e] + 1]])

\* a render of App after a state change, with the effect run again
Render(u) == Effect(Cleanup(u))

\* the setters of a handler, batched: no render when nothing changes
SetState(u, isLocked, selectedItem, currentView) ==
  IF ~u.mounted
       \/ (/\ isLocked = u.isLocked /\ selectedItem = u.selectedItem
           /\ currentView = u.currentView)
    THEN u
    ELSE Render([u EXCEPT !.isLocked = isLocked,
                          !.selectedItem = selectedItem,
                          !.currentView = currentView])

\* the App after its first render
AppState ==
  Effect([mounted |-> TRUE, component |-> "App", currentView |-> "dashboard",
          selectedItem |-> Null, isLocked |-> FALSE, timers |-> {},
          timerRef |-> 0, listeners |-> [e \in ActivityEvents |-> 0]])

AppEvent(op) == VaultCall(op, Undefined, "ok", Null, 0, FALSE)

\* one of the events the hook listens for: every listener runs resetTimer
activity(event) ==
  /\ ui.mounted
  /\ ui' = IF ui.listeners[event] > 0 THEN resetTimer(ui) ELSE ui
  /\ last' = AppEvent(event)
  /\ UNCHANGED <<localStorage, credentials, rand, faults, registered, db,
                 pending>>

\* part_006 lines 29-34: the navigateTo of a render, which closed over the
\* isLocked of that render
NavigateFrom(u, isLocked, view, item) ==
  IF isLocked THEN u ELSE SetState(u, u.isLocked, item, view)

\* a click in the rendered tree calls the navigateTo of the latest render
navigateTo(view, item) ==
  /\ ui.mounted
  /\ ui' = NavigateFrom(ui, ui.isLocked, view, item)
  /\ last' = AppEvent("navigateTo")
  /\ UNCHANGED <<localStorage, credentials, rand, faults, registered, db,
                 pending>>

\* the lock button of the header, line 72
lockVault ==
  /\ ui.mounted
  /\ ui' = SetState(ui, TRUE, ui.selectedItem, ui.currentView)
  /\ last' = AppEvent("lockVault")
  /\ UNCHANGED <<localStorage, credentials, rand, faults, registered, db,
                 pending>>

\* the suspended calls without call i, which has run to its end
Settle(calls, i) ==
  SubSeq(calls, 1, i - 1) \o SubSeq(calls, i + 1, Len(calls))

\* handleUnlock, lines 41-51, up to its await of verifyBiometrics()
handleUnlockStarts ==
  /\ ui.mounted /\ ui.isLocked
  /\ Len(pending) < MaxCalls
  /\ pending' = Append(pending, [op |-> "handleUnlock",
                                 awaits |-> "verifyBiometrics"])
  /\ last' = AppEvent("handleUnlock")
  /\ UNCHANGED <<localStorage, credentials, rand, faults, registered, db, ui>>

\* verifyBiometrics() settles, asserted by credential c (0: rejected); the
\* try and the catch both end in setIsLocked(false)
handleUnlockSettles(c, hasPrf) ==
  LET migrates == /\ c # 0
                  /\ Truthy(StoredValue(localStorage, Undefined))
                  /\ ~IsSecure(localStorage, Undefined)
                  /\ hasPrf
      r == VerifyAsserted(localStorage, Undefined, c, hasPrf, rand + 1,
                          rand + 1, TRUE, 0)
  IN /\ \E i \in DOMAIN pending :
          /\ pending[i].op = "handleUnlock"
          /\ pending' = Settle(pending, i)
     /\ c # 0 => c \in Assertable(AllowCredentials(localStorage, Undefined),
                                  credentials)
     /\ c = 0 => ~hasPrf
     /\ migrates => rand < MaxRand
     /\ rand' = IF migrates THEN rand + 1 ELSE rand
     /\ localStorage' = IF c # 0 THEN r.store ELSE localStorage
     /\ ui' = SetState(ui, FALSE, ui.selectedItem, ui.currentView)
     /\ last' = VaultCall("handleUnlockSettled", Undefined,
                          IF c # 0 THEN r.outcome ELSE "NotAllowedError",
                          Null, c, hasPrf)
     /\ UNCHANGED <<credentials, faults, registered, db>>

\* part_006 lines 21-27: the callback of a timer whose time is up, with the
\* isLocked of the render that made it
onInactivity ==
  \E t \in ui.timers :
    /\ t.remaining = 0
    /\ ui' = LET u == [ui EXCEPT !.timers = @ \ {t}]
             IN IF ~t.isLocked THEN SetState(u, TRUE, Null, "dashboard")
                ELSE u
    /\ last' = AppEvent("onInactivity")
    /\ UNCHANGED <<localStorage, credentials, rand, faults, registered, db,
                   pending>>

\* the App is unmounted: the cleanup of the hook
unmountApp ==
  /\ ui.mounted
  /\ ui' = [Cleanup(ui) EXCEPT !.mounted = FALSE]
  /\ last' = AppEvent("unmount")
  /\ UNCHANGED <<localStorage, credentials, rand, faults, registered, db,
                 pending>>

\* the global scope holds a Legacy record of credential 1
InitApp ==
  /\ localStorage =
       Written([k \in Keys |-> Null],
               RegisterWrites(Undefined, "abc12345", Undefined, 1, FALSE, 0, 0),
               0)
  /\ credentials = 1
  /\ rand = 0
  /\ faults = 0
  /\ registered = [id \in Ids |-> Null]
  /\ last = NoCall
  /\ db = EmptyDb
  /\ pending = NoPending
  /\ ui = AppState

Activity == \E event \in ActivityEvents : activity(event)

NavigateTo == \E v \in Views : navigateTo(v[1], v[2])

HandleUnlock ==
  \/ handleUnlockStarts
  \/ \E c \in 0..MaxCred, hasPrf \in BOOLEAN : handleUnlockSettles(c, hasPrf)

NextApp ==
  Activity \/ NavigateTo \/ lockVault \/ HandleUnlock \/ onInactivity
    \/ unmountApp \/ tick

SpecApp == InitApp /\ [][NextApp]_vars

\* time passes and the browser runs the timers that are due
SpecAppLive == SpecApp /\ WF_vars(tick) /\ WF_vars(onInactivity)

\* The App with a handler of a rendered view in flight.  ItemView's
\* handleEnableBio (ItemView.tsx 300-310) awaits registerBiometrics and the
\* update of the row and then calls onBack(), the () => navigateTo('dashboard')
\* of the render the handler was made in; the App may have rendered again,
\* locked, while the handler was suspended.
\* part_006 lines 92-135: what main shows
Rendered(u) ==
  IF u.isLocked THEN "LockScreen"
  ELSE CASE u.currentView = "dashboard" -> "Dashboard"
         [] u.currentView = "create" -> "CreateItem"
         [] u.currentView = "scan" -> "Scanner"
         [] u.currentView = "view" /\ u.selectedItem # Null -> "ItemView"
         [] OTHER -> "nothing"

\* the button is pressed: up to await registerBiometrics(...)
enableBioStarts ==
  /\ ui.mounted
  /\ Rendered(ui) = "ItemView"
  /\ Len(pending) < MaxCalls
  /\ pending' = Append(pending, [op |-> "handleEnableBio",
                                 awaits |-> "registerBiometrics",
                                 itemId |-> ui.selectedItem.str,
                                 isLocked |-> ui.isLocked])
  /\ last' = AppEvent("handleEnableBio")
  /\ UNCHANGED <<localStorage, credentials, rand, faults, registered, db, ui>>

\* registerBiometrics settles: declined, the catch sets the error of the
\* view; otherwise the record is written, the row updated and onBack() called
enableBioSettles(how) ==
  \E i \in DOMAIN pending :
    LET call == pending[i]
        r == RegisterResult(localStorage, "abc12345", call.itemId, "Seed", how,
                            credentials + 1, rand + 1)
    IN /\ call.op = "handleEnableBio"
       /\ CanDraw(Creates(how), Draws(how))
       /\ credentials' = credentials + Creates(how)
       /\ rand' = rand + Draws(how)
       /\ localStorage' = r.store
       /\ db' = IF r.ok
                  THEN [db EXCEPT !.vault_items =
                          Update(@, call.itemId, "hasBiometrics", TRUE)]
                  ELSE db
       /\ pending' = Settle(pending, i)
       /\ ui' = IF r.ok /\ ui.mounted
                  THEN NavigateFrom(ui, call.isLocked, "dashboard", Null)
                  ELSE ui
       /\ last' = VaultCall("handleEnableBioSettled", call.itemId,
                            IF r.ok THEN "ok" ELSE "NotAllowedError",
                            Null, 0, how = "secure")
       /\ UNCHANGED <<faults, registered>>

EnableBioInFlight ==
  enableBioStarts \/ \E how \in RegisterEnds : enableBioSettles(how)

NextAppViews == NextApp \/ EnableBioInFlight

SpecAppViews == InitApp /\ [][NextAppViews]_vars


\* ------------------------------------------------------------ vocabulary
\* The scope a call was made for.
LastScope == ScopeId(last.itemId)

RegisterDeclinedOutcomes == {"NotAllowedError", "Biometric registration failed"}
VerifyDeclinedOutcomes == {"NotAllowedError", "Biometric verification failed"}
PrfUnavailable == "Secure biometric unlock failed: PRF not available"
NoPasswordFound == "No password found for this biometric credential"

\* verifyBiometrics got an assertion from the platform
Asserted(call) == call.op = "verify" /\ call.cred # 0

SecureFlag(store, id) == store[SecureKey(id)] = TrueFlag

\* the payload of id unwraps to the stored string v under credential c's PRF key
Wraps(store, id, c, v) ==
  decryptData(store[PassKey(id)], Str(ToHex(PrfFirst(c))))
    = [ok |-> TRUE, error |-> "", value |-> v]

\* ------------------------------------------------------------------ claims

\* C1  Credential round-trip: once registerBiometrics(pw, s) has succeeded and
\* no register or clear on s followed, a verifyBiometrics(s) asserted by the
\* credential of that registration (with a PRF output whenever the record is
\* Secure) returns exactly pw, whatever the other scope holds.
C1_CredentialRoundTrip ==
  (/\ Asserted(last)
   /\ registered[LastScope] # Null
   /\ last.cred = registered[LastScope].cred
   /\ (last.prf \/ ~SecureFlag(localStorage, LastScope)))
  => (/\ last.outcome = "ok"
      /\ last.ret = Str(registered[LastScope].password))

\* C2  Mode/payload atomicity: in every reachable state, also after a
\* rejected storage write, the secure flag of a scope is 'true' iff its
\* payload is an envelope.
C2_ModePayloadAtomic ==
  \A id \in Ids :
    SecureFlag(localStorage, id) <=> IsEnvelope(localStorage[PassKey(id)])

\* Both scopes hold a successful registration, with different passwords.
DistinctlyRegistered(a, b) ==
  /\ a # b
  /\ registered[a] # Null
  /\ registered[b] # Null
  /\ registered[a].password # registered[b].password

C4_SecureNeedsPrf ==
  [][ (last'.op = "verify") =>
        /\ (/\ Asserted(last') /\ ~last'.prf
            /\ SecureFlag(localStorage, LastScope')
            /\ localStorage[PassKey(LastScope')] # Null)
           => (/\ last'.outcome = PrfUnavailable
               /\ last'.ret = Null
               /\ localStorage' = localStorage)
        /\ \A id \in Ids :
             SecureFlag(localStorage, id)
             => (/\ SecureFlag(localStorage', id)
                 /\ localStorage'[PassKey(id)] = localStorage[PassKey(id)])
    ]_vars

C4_Witness ==
  /\ Asserted(last) /\ ~last.prf
  /\ last.outcome = PrfUnavailable
  /\ SecureFlag(localStorage, LastScope)
  /\ IsEnvelope(localStorage[PassKey(LastScope)])

\* The record of id is a Legacy one: a plaintext payload and no secure flag.
LegacyRecord(store, id) ==
  /\ store[PassKey(id)] # Null
  /\ ~IsEnvelope(store[PassKey(id)])
  /\ ~SecureFlag(store, id)

\* C5  Migration: verifyBiometrics(s) on a Legacy record with payload pw,
\* asserted with a PRF output (the wrapping and its writes not failing),
\* returns pw and leaves the record of s Secure, wrapping pw under the key of
\* that PRF output.
C5_Migration ==
  [][ (/\ Asserted(last') /\ last'.prf
       /\ last'.migration \notin {"encryptFailed", "writeRejected"}
       /\ LegacyRecord(localStorage, LastScope'))
      => (/\ last'.outcome = "ok"
          /\ last'.ret = localStorage[PassKey(LastScope')]
          /\ SecureFlag(localStorage', LastScope')
          /\ Wraps(localStorage', LastScope', last'.cred,
                   localStorage[PassKey(LastScope')]))
    ]_vars

\* C6  Migration idempotence: for a registered scope s, a verifyBiometrics(s)
\* asserted by the scope's credential with a PRF output (nothing failing in
\* the call) writes the migration exactly when the record is still Legacy,
\* and only over the registered plaintext; it leaves the record Secure and
\* returns the registered password; on a Secure record it writes nothing.
C6_MigrationIdempotence ==
  [][ (/\ Asserted(last') /\ last'.prf
       /\ last'.migration \notin {"encryptFailed", "writeRejected"}
       /\ registered[LastScope'] # Null
       /\ last'.cred = registered[LastScope'].cred)
      => (/\ (last'.migration = "written")
               <=> ~SecureFlag(localStorage, LastScope')
          /\ (last'.migration = "written")
               => localStorage[PassKey(LastScope')]
                    = Str(registered[LastScope'].password)
          /\ SecureFlag(localStorage, LastScope')
               => localStorage' = localStorage
          /\ SecureFlag(localStorage', LastScope')
          /\ last'.outcome = "ok"
          /\ last'.ret = Str(registered[LastScope'].password))
    ]_vars

\* C7  When the wrapping encryption of the migration fails, verifyBiometrics
\* still returns the Legacy password without an error and storage is exactly
\* as before the call, the scope still Legacy.
C7_MigrationFailureSwallowed ==
  [][ (last'.op = "verify" /\ last'.migration = "encryptFailed")
      => (/\ last'.outcome = "ok"
          /\ last'.ret # Null
          /\ last'.ret = IF localStorage[PassKey(LastScope')] # Null
                           THEN localStorage[PassKey(LastScope')]
                           ELSE localStorage[PassKey(LEGACY_AUTH_ITEM_ID)]
          /\ localStorage' = localStorage
          /\ ~SecureFlag(localStorage', LastScope'))
    ]_vars

C7_Witness ==
  /\ last.op = "verify" /\ last.migration = "encryptFailed"
  /\ last.outcome = "ok"
  /\ last.ret = localStorage[PassKey(LastScope)]
  /\ LegacyRecord(localStorage, LastScope)

\* Nothing is stored for id.
NotRegistered(store, id) ==
  /\ store[PassKey(id)] = Null
  /\ store[SecureKey(id)] = Null
  /\ store[CredKey(id)] = Null

\* C8  After a successful registerBiometrics(pw, s) from NotRegistered the
\* record of s is Secure (flag 'true', payload wrapping pw under the PRF key
\* of the new credential) iff the credential returned a PRF output, and
\* otherwise Legacy (no flag, payload pw).
C8_RegisterMode ==
  [][ (/\ last'.op = "register" /\ last'.outcome = "ok"
       /\ NotRegistered(localStorage, LastScope'))
      => IF last'.prf
           THEN /\ SecureFlag(localStorage', LastScope')
                /\ Wraps(localStorage', LastScope', last'.cred,
                         Str(registered'[LastScope'].password))
           ELSE /\ localStorage'[SecureKey(LastScope')] = Null
                /\ localStorage'[PassKey(LastScope')]
                     = Str(registered'[LastScope'].password)
    ]_vars

\* a first, successful registration with a PRF output
C8_Witness ==
  /\ last.op = "register" /\ last.outcome = "ok" /\ last.prf
  /\ credentials = 1
  /\ SecureFlag(localStorage, LastScope)
  /\ IsEnvelope(localStorage[PassKey(LastScope)])

\* a credential id is stored for id but no password payload
PartialRow(store, id) ==
  store[CredKey(id)] # Null /\ store[PassKey(id)] = Null

\* C9  verifyBiometrics(s) for a scope whose credential id is stored but
\* whose password payload is absent fails with the no-password error and
\* returns no value, never one taken from elsewhere.
C9_NoPasswordNoValue ==
  [][ (Asserted(last') /\ PartialRow(localStorage, LastScope'))
      => (last'.outcome = NoPasswordFound /\ last'.ret = Null)
    ]_vars

\* C10  When the platform declines credential creation, registerBiometrics
\* fails and leaves every storage key unchanged.
C10_DeclinedRegisterWritesNothing ==
  [][ (last'.op = "register" /\ last'.outcome \in RegisterDeclinedOutcomes)
      => localStorage' = localStorage
    ]_vars

\* a declined registration for a scope that already holds a record
C10_Witness ==
  /\ last.op = "register" /\ last.outcome \in RegisterDeclinedOutcomes
  /\ localStorage[PassKey(LastScope)] # Null
  /\ localStorage[CredKey(LastScope)] # Null
  /\ registered[LastScope] # Null

\* C11  When the platform declines the assertion (navigator.credentials.get
\* rejects or yields null) verifyBiometrics fails, returns no password and
\* leaves every storage key unchanged.
C11_DeclinedVerifyWritesNothing ==
  [][ (last'.op = "verify" /\ last'.cred = 0)
      => (/\ last'.outcome \in VerifyDeclinedOutcomes
          /\ last'.ret = Null
          /\ localStorage' = localStorage)
    ]_vars

\* a declined verification for a scope that holds a registered Legacy record
C11_Witness ==
  /\ last.op = "verify" /\ last.cred = 0
  /\ last.outcome \in VerifyDeclinedOutcomes
  /\ registered[LastScope] # Null
  /\ LegacyRecord(localStorage, LastScope)

\* C12  clearBiometrics(s) returns s to NotRegistered: right after it
\* hasBiometricsRegistered(s) is false, and a verifyBiometrics(s) that comes
\* next, before any registration, returns no password.
C12_ClearReturnsToNotRegistered ==
  [][ /\ (last'.op = "clear")
           => ~hasBiometricsRegistered(localStorage', last'.itemId)
      /\ (/\ last.op = "clear" /\ last'.op = "verify"
          /\ last'.itemId = last.itemId)
           => (last'.outcome # "ok" /\ last'.ret = Null)
    ]_vars

\* C13  Record lifecycle: the payload of a scope comes into existence only in
\* a registerBiometrics call for that scope (never in a verifyBiometrics) and
\* goes away only in a clearBiometrics call for that scope.
C13_RecordLifecycle ==
  [][ \A id \in Ids :
        /\ (localStorage[PassKey(id)] = Null /\ localStorage'[PassKey(id)] # Null)
             => (last'.op = "register" /\ LastScope' = id)
        /\ (localStorage[PassKey(id)] # Null /\ localStorage'[PassKey(id)] = Null)
             => (last'.op = "clear" /\ LastScope' = id)
    ]_vars

\* C14  Re-registration replaces: when registerBiometrics(pw2, 'item-1')
\* succeeds on the item that holds a first registration, the item holds the
\* record of pw2 in the mode given by the second credential's PRF output and
\* the stored credential id is the second credential's; from then on a
\* verifyBiometrics('item-1') asserted by that credential (with a PRF output
\* whenever the record is Secure, nothing failing in the call) returns pw2.
C14_ReRegistrationReplaces ==
  [][ /\ (/\ last'.op = "register" /\ last'.outcome = "ok"
          /\ last'.itemId = "item-1")
           => (/\ localStorage'[CredKey("item-1")]
                    = bufferToBase64(RawId(last'.cred))
               /\ IF last'.prf
                    THEN /\ SecureFlag(localStorage', "item-1")
                         /\ Wraps(localStorage', "item-1", last'.cred,
                                  Str(registered'["item-1"].password))
                    ELSE /\ localStorage'[SecureKey("item-1")] = Null
                         /\ localStorage'[PassKey("item-1")]
                              = Str(registered'["item-1"].password))
      /\ (/\ Asserted(last') /\ last'.itemId = "item-1"
          /\ registered["item-1"] # Null
          /\ registered["item-1"].cred > 1
          /\ last'.cred = registered["item-1"].cred
          /\ last'.migration \notin {"encryptFailed", "writeRejected"}
          /\ (last'.prf \/ ~SecureFlag(localStorage, "item-1")))
           => (/\ last'.outcome = "ok"
               /\ last'.ret = Str(registered["item-1"].password))
    ]_vars

\* the list of raw ids as a set
ListedIds(allow) == {allow[i] : i \in 1..Len(allow)}

\* the raw ids the list of verifyBiometrics(itemId) is to hold: the one stored
\* for the scope and, for an item scope, the one stored for the global scope
ExpectedIds(store, itemId) ==
  {base64ToBuffer(v) :
     v \in ({store[CredKey(ScopeId(itemId))]}
             \cup (IF itemId # Undefined
                     THEN {store[CredKey(LEGACY_AUTH_ITEM_ID)]}
                     ELSE {})) \ {Null}}

\* C15  The allowCredentials list of verifyBiometrics(s) holds exactly the
\* credential id stored for s and, for an item scope, the stored global
\* credential id, each once; never the id stored for another item; it is
\* empty (and then omitted) only when neither id is stored.  The asserting
\* credential is one of the list whenever the list is given.
C15_AllowCredentials ==
  /\ \A itemId \in Items2 \cup {Undefined} :
       LET allow == AllowCredentials(localStorage, itemId)
           expected == ExpectedIds(localStorage, itemId)
       IN /\ ListedIds(allow) = expected
          /\ Len(allow) = Cardinality(expected)
          /\ \A other \in Items2 \ {itemId} :
               localStorage[CredKey(other)] # Null
               => base64ToBuffer(localStorage[CredKey(other)])
                    \notin ListedIds(allow)
          /\ (allow = <<>>)
               <=> (/\ localStorage[CredKey(ScopeId(itemId))] = Null
                    /\ (itemId = Undefined
                          \/ localStorage[CredKey(LEGACY_AUTH_ITEM_ID)] = Null))
  /\ (Asserted(last) /\ ExpectedIds(localStorage, last.itemId) # {})
       => RawId(last.cred) \in ExpectedIds(localStorage, last.itemId)

\* item-1 verified with its own and the global credential id on the list
\* while item-2 holds a credential id too
C15_Witness ==
  /\ Asserted(last) /\ last.itemId = "item-1"
  /\ Len(AllowCredentials(localStorage, "item-1")) = 2
  /\ localStorage[CredKey("item-2")] # Null

\* C16  Envelope round-trip: decryptData(encryptData(T, P), P) returns T for
\* every password P and plaintext T.
C16_EnvelopeRoundTrip ==
  (/\ last.op = "decrypt" /\ last.altered = "none"
   /\ last.password2 = last.password)
  => (last.outcome = "ok" /\ last.ret = last.text)

\* C17  For E = encryptData(T, P): decryptData(E, P2) fails for every
\* password P2 other than P, decryptData fails on every envelope that differs
\* from E in ciphertext, iv or salt, and whatever decryptData returns is T,
\* whole.
C17_WrongKeyOrTamperFails ==
  (last.op = "decrypt")
  => (/\ (last.altered = "none" /\ last.password2 # last.password)
           => last.outcome # "ok"
      /\ (last.altered \in {"ciphertext", "iv", "salt"})
           => last.outcome # "ok"
      /\ (last.outcome = "ok") => last.ret = last.text)

\* C18  decryptData ends with the same generic error for a wrong password,
\* for an altered ciphertext, iv or salt and for a malformed envelope
\* (invalid JSON, missing field, invalid base64): every failure carries the
\* error of line 111.
C18_OneGenericError ==
  (last.op = "decrypt")
  => (/\ (last.altered # "none") => last.outcome = DecryptionFailed
      /\ (last.outcome # "ok") => last.outcome = DecryptionFailed)

\* salt and iv of an envelope, as drawn
SaltOf(envelope) == base64ToArrayBuffer(envelope.salt)
IvOf(envelope) == base64ToArrayBuffer(envelope.iv)

\* C19  Freshness: every envelope that registerBiometrics or a migration
\* writes carries a salt and an iv drawn in that call, different from every
\* salt and iv drawn before (rand counts the draws), so no (key, iv) pair
\* serves two encryptions and equal (text, password) give different
\* envelopes.
C19_Freshness ==
  [][ \A id \in Ids :
        /\ IsEnvelope(localStorage[PassKey(id)])
             => (/\ SaltOf(localStorage[PassKey(id)]) <= rand
                 /\ IvOf(localStorage[PassKey(id)]) <= rand)
        /\ (/\ IsEnvelope(localStorage'[PassKey(id)])
            /\ localStorage'[PassKey(id)] # localStorage[PassKey(id)])
             => (/\ SaltOf(localStorage'[PassKey(id)]) > rand
                 /\ IvOf(localStorage'[PassKey(id)]) > rand
                 /\ SaltOf(localStorage'[PassKey(id)]) <= rand'
                 /\ IvOf(localStorage'[PassKey(id)]) <= rand'
                 /\ \A other \in Ids :
                      IsEnvelope(localStorage[PassKey(other)])
                      => localStorage'[PassKey(id)].ciphertext
                           # localStorage[PassKey(other)].ciphertext)
    ]_vars

\* the same password wrapped under the same PRF key a second time, by a
\* migration, while the item still holds the envelope of the first wrapping
C19_Witness ==
  /\ last.op = "verify" /\ last.migration = "written" /\ rand = 2
  /\ \E a \in Ids, b \in Ids :
       /\ a # b
       /\ IsEnvelope(localStorage[PassKey(a)])
       /\ IsEnvelope(localStorage[PassKey(b)])
       /\ base64ToArrayBuffer(localStorage[PassKey(a)].ciphertext).data
            = base64ToArrayBuffer(localStorage[PassKey(b)].ciphertext).data
       /\ base64ToArrayBuffer(localStorage[PassKey(a)].ciphertext).key.password
            = base64ToArrayBuffer(localStorage[PassKey(b)].ciphertext).key.password
       /\ localStorage[PassKey(a)] # localStorage[PassKey(b)]

\* the file is an encrypted export made with password p
EncryptedWith(jsonString, p) ==
  \E t \in SampleTables : jsonString = ExportData(t, Str(p), 0, 0)

\* C20  importData on a payload with the encrypted discriminator
\* ({encrypted: true, data: ...}) and no password fails with
\* PASSWORD_REQUIRED without having called decryptData; an encrypted export
\* imported with a wrong password fails with the decryption error, a
\* different one; a payload without the discriminator never fails with
\* PASSWORD_REQUIRED.
C20_PasswordRequired ==
  (last.op = "import")
  => (/\ (EncryptedWrapper(last.jsonString) /\ NoPassword(last.password))
           => (last.outcome = "PASSWORD_REQUIRED" /\ ~last.decrypts)
      /\ \A p \in Passwords :
           (/\ EncryptedWith(last.jsonString, p)
            /\ ~NoPassword(last.password)
            /\ last.password # Str(p))
           => (/\ last.outcome = DecryptionFailed
               /\ last.outcome # "PASSWORD_REQUIRED")
      /\ (~IsJsonObject(last.jsonString) \/ ~EncryptedWrapper(last.jsonString))
           => last.outcome # "PASSWORD_REQUIRED")

\* an encrypted export imported without a password
C20_Witness ==
  /\ last.op = "import" /\ last.password = Null
  /\ EncryptedWith(last.jsonString, "abc12345")
  /\ last.outcome = "PASSWORD_REQUIRED"

\* C21  Biometric access to items: for every vault item whose hasBiometrics
\* flag is true, a biometric unlock from the item view that the platform
\* asserted (with a PRF output whenever the record needs one) ends with
\* verifyBiometrics returning a password that decrypts the encryptedData the
\* vault holds for the item, whatever creations with biometric registration,
\* restores from QR, enable-biometrics and password changes came before.
C21_BiometricAccess ==
  (/\ last.op = "handleBioDecrypt"
   /\ last.outcome # PrfUnavailable
   /\ db.vault_items[last.itemId].hasBiometrics)
  => (/\ last.outcome = "ok"
      /\ decryptData(db.vault_items[last.itemId].encryptedData, last.ret).ok)

\* The passwords verifyBiometrics(itemId) hands out for the records in store,
\* over the credentials the platform may assert with.
HeldPasswords(store, itemId, created) ==
  {VerifyAsserted(store, itemId, c, TRUE, 0, 0, TRUE, 0).ret :
     c \in {a \in Assertable(AllowCredentials(store, itemId), created) :
              VerifyAsserted(store, itemId, a, TRUE, 0, 0, TRUE, 0).outcome
                = "ok"}}

\* The biometric record of the item and its envelope in vault_items refer to
\* the same password.
InStep(store, table, itemId, created) ==
  /\ HeldPasswords(store, itemId, created) # {}
  /\ \A p \in HeldPasswords(store, itemId, created) :
       decryptData(table[itemId].encryptedData, p).ok

\* C22  Password change keeps envelope and biometric record in step: when
\* handleChangePassword finishes for an item with hasBiometrics = true whose
\* biometric record held the password of its envelope, on the success path or
\* on any failure path (a cancelled biometric re-registration included), the
\* password held in the biometric record decrypts the envelope stored for the
\* item in vault_items.
C22_PasswordChangeInStep ==
  [][ (/\ last'.op = "handleChangePassword"
       /\ ui.item.hasBiometrics
       /\ InStep(localStorage, db.vault_items, last'.itemId, credentials))
      => InStep(localStorage', db'.vault_items, last'.itemId, credentials')
    ]_vars

\* A pending handleBioDecrypt ends in its catch block in this step.
BioUnlockFails ==
  /\ pending # <<>>
  /\ ui.mounted
  /\ last'.op = "handleBioDecrypt"
  /\ last'.outcome # "ok"

\* C23 as stated: in ItemView every failed biometric unlock (verifyBiometrics
\* rejects, or the password it returned does not decrypt the item) ends with
\* isVerifying false, an error set, decryptedSeed null and the password form
\* rendered, and with no verifyBiometrics call pending.
C23_FailedBioUnlockLocked ==
  [][ BioUnlockFails
      => (/\ ~ui'.isVerifying
          /\ ui'.error # Null
          /\ ui'.decryptedSeed = Null
          /\ FormRendered'
          /\ pending' = <<>>)
    ]_vars

\* C23  In ItemView every failed biometric unlock ends with isVerifying
\* false and the error of the catch block set, leaves decryptedSeed as it
\* was (null, with the password form rendered, unless the password form
\* decrypted the item while the biometric call was pending) and leaves no
\* verifyBiometrics call pending: a new call takes a new press of the button.
C23_FailedBioUnlock ==
  [][ BioUnlockFails
      => (/\ ~ui'.isVerifying
          /\ ui'.error = BIO_FAILED
          /\ ui'.decryptedSeed = ui.decryptedSeed
          /\ (ui.decryptedSeed = Null => FormRendered')
          /\ pending' = <<>>)
    ]_vars

\* a biometric unlock has failed in the mounted view, with the secret locked
C23_Witness ==
  /\ last.op = "handleBioDecrypt"
  /\ last.outcome = DecryptionFailed
  /\ ui.mounted
  /\ ui.error = BIO_FAILED
  /\ ui.decryptedSeed = Null
  /\ pending = <<>>

\* the auto-lock timers that are pending are: the one of the effect while a
\* secret is displayed, none otherwise
OneTimerWhileDisplayed ==
  IF Displayed
    THEN ui.timers = {t \in ui.timers : t.id = ui.effectTimer}
           /\ Cardinality(ui.timers) = 1
    ELSE ui.timers = {}

\* C24  Auto re-lock of a viewed secret: exactly one auto-lock timer is
\* pending while ItemView displays a decrypted secret and none is pending
\* when no secret is displayed; the callback of the timer leaves decryptedSeed
\* null; and a displayed secret is eventually cleared, by that callback unless
\* the user or an unmount clears it earlier.
C24_AutoRelock ==
  /\ []OneTimerWhileDisplayed
  /\ [][last'.op = "setTimeout" /\ last.op # "setTimeout"
          => ui'.decryptedSeed = Null]_vars
  /\ (Displayed ~> ~Displayed)

\* the timer of a displayed secret has run and cleared it
C24_Witness ==
  /\ last.op = "setTimeout"
  /\ ui.mounted
  /\ ui.decryptedSeed = Null
  /\ ui.timers = {}

\* this step is the passing of a minute, which leaves last as it was
TimePasses ==
  /\ last' = last
  /\ ui.timers # {}
  /\ ui' = [ui EXCEPT !.timers =
              {[t EXCEPT !.remaining = @ - 1] : t \in ui.timers}]

\* the callback of the inactivity timer runs in this step
InactivityFires == last'.op = "onInactivity" /\ ~TimePasses

\* an activity event is handled in this step
ActivityHandled == last'.op \in ActivityEvents /\ ~TimePasses

\* what the vault is left in by the auto-lock
AutoLocked(u) ==
  u.isLocked /\ u.selectedItem = Null /\ u.currentView = "dashboard"

\* the countdown of the hook: at most one timer is pending, one is while the
\* vault is unlocked, and it locks the vault when it runs; an unmounted App
\* has no timer and no listener
OneCountdown ==
  IF ui.mounted
    THEN /\ Cardinality(ui.timers) <= 1
         /\ ~ui.isLocked =>
              \E t \in ui.timers : t.id = ui.timerRef /\ ~t.isLocked
         /\ \A e \in ActivityEvents : ui.listeners[e] = 1
    ELSE /\ ui.timers = {}
         /\ \A e \in ActivityEvents : ui.listeners[e] = 0

\* the countdown has gone on since it was started
Counting == ui.mounted /\ \E t \in ui.timers : t.remaining < INACTIVITY_MINUTES

\* C25 as stated: whenever the inactivity callback fires, the vault is left
\* locked with selectedItem cleared and the view reset to dashboard.
C25_InactivityLocksAndResets ==
  [][InactivityFires => AutoLocked(ui')]_vars

\* C25  Inactivity auto-lock: every activity event (mousedown, mousemove,
\* keypress, scroll, touchstart) restarts the countdown, at most one timer is
\* pending at any time and no timer or listener remains after unmount; with
\* no restart the callback of the timer fires, and firing on an unlocked
\* vault it leaves the vault locked with selectedItem cleared and the view
\* reset to dashboard, while on a vault that is locked already it changes
\* nothing.
C25_InactivityAutoLock ==
  /\ []OneCountdown
  /\ [][ActivityHandled
          => ui'.timers = {[id |-> ui'.timerRef,
                            remaining |-> INACTIVITY_MINUTES,
                            isLocked |-> ui.isLocked]}]_vars
  /\ [][InactivityFires
          => IF ui.isLocked
               THEN /\ ui'.isLocked
                    /\ ui'.selectedItem = ui.selectedItem
                    /\ ui'.currentView = ui.currentView
               ELSE AutoLocked(ui')]_vars
  /\ ((Counting /\ ~ui.isLocked) ~> (ui.isLocked \/ ~Counting))

\* the callback has locked a vault that showed an item
C25_Witness ==
  /\ last.op = "onInactivity"
  /\ AutoLocked(ui)
  /\ ui.mounted
  /\ \E t \in ui.timers : t.isLocked /\ t.remaining = INACTIVITY_MINUTES

\* the scope whose payload verifyBiometrics(itemId) reads: the scope of the
\* call when it holds one, the global scope otherwise
PayloadScope(store, itemId) ==
  IF Truthy(store[PassKey(ScopeId(itemId))])
    THEN ScopeId(itemId)
    ELSE LEGACY_AUTH_ITEM_ID

\* the errors decryptData ends with
DecryptErrors == {"SyntaxError", "InvalidCharacterError", DecryptionFailed}

\* the call handed its payload to decryptData
Unwrapped(store, call) ==
  \/ call.outcome \in DecryptErrors
  \/ call.outcome = "ok" /\ call.ret # StoredValue(store, call.itemId)

\* the call returned its payload as it was stored
Verbatim(store, call) ==
  call.outcome = "ok" /\ call.ret = StoredValue(store, call.itemId)

\* C26  verifyBiometrics(s) takes the payload and the mode from the same
\* record: it passes the payload to decryptData only if the record the
\* payload was read from is a Secure one (flag 'true', payload an envelope),
\* and returns the payload verbatim only if that record is a Legacy one, for
\* every combination of item-scope and global-scope records.
C26_PayloadAndModeOfOneRecord ==
  [][ (Asserted(last') /\ Truthy(StoredValue(localStorage, last'.itemId)))
      => LET from == PayloadScope(localStorage, last'.itemId)
         IN /\ Unwrapped(localStorage, last')
                 => /\ SecureFlag(localStorage, from)
                    /\ IsEnvelope(localStorage[PassKey(from)])
            /\ Verbatim(localStorage, last')
                 => LegacyRecord(localStorage, from)
    ]_vars

\* C27  verifyBiometrics(s) on a Legacy record, with a successful assertion
\* that carries no PRF output, returns the stored password and leaves every
\* storage key unchanged; the record stays Legacy.
C27_LegacyWithoutPrf ==
  [][ (/\ Asserted(last') /\ ~last'.prf
       /\ LegacyRecord(localStorage, LastScope'))
      => (/\ last'.outcome = "ok"
          /\ last'.ret = localStorage[PassKey(LastScope')]
          /\ localStorage' = localStorage
          /\ LegacyRecord(localStorage', LastScope'))
    ]_vars

\* the storage keys of a scope: password, secure flag, credential id and
\* display name
ScopeKeys(id) == {PassKey(id), SecureKey(id), CredKey(id), NameKey(id)}

\* C28  Scope frame: registerBiometrics, verifyBiometrics (its migration
\* included) and clearBiometrics invoked for scope A write or remove only the
\* storage keys of scope A; the keys of every other scope, the global scope's
\* included, are unchanged.
C28_ScopeFrame ==
  [][ \A k \in Keys \ ScopeKeys(LastScope') :
        localStorage'[k] = localStorage[k] ]_vars

\* a verify of the item has migrated the item's record next to a Legacy
\* record of the global scope, which is as it was registered
C28_Witness ==
  /\ Asserted(last) /\ last.migration = "written"
  /\ LastScope \in Items
  /\ SecureFlag(localStorage, LastScope)
  /\ LegacyRecord(localStorage, LEGACY_AUTH_ITEM_ID)
  /\ localStorage[CredKey(LEGACY_AUTH_ITEM_ID)] # Null

\* ------------------------------------- verifyBiometrics, await by await
\* A call of verifyBiometrics is suspended at navigator.credentials.get (line
\* 143) and, on the migration path, at encryptData (line 174); everything
\* between two awaits runs without interruption.  pending keeps every call
\* of the run with its local variables: suspended `at` "get" or "encrypt",
\* or settled ("done") with its outcome.  onLegacy notes that the scope of
\* the call held a Legacy record when the call was made.
VerifyCall(store, itemId) ==
  [op |-> "verify", itemId |-> itemId, at |-> "get",
   allow |-> AllowCredentials(store, itemId),
   cred |-> 0, prf |-> FALSE, password |-> Null, nonce |-> 0,
   outcome |-> "", ret |-> Null, migration |-> "none",
   onLegacy |-> LegacyRecord(store, ScopeId(itemId))]

Settled(call, outcome, ret, migration) ==
  [call EXCEPT !.at = "done", !.outcome = outcome, !.ret = ret,
               !.migration = migration]

\* what last says of a settled call
Outcome(call) ==
  [op |-> "verify", itemId |-> call.itemId, outcome |-> call.outcome,
   ret |-> call.ret, cred |-> call.cred, prf |-> call.prf,
   migration |-> call.migration]

\* lines 101-143: the allow list is built and the prompt is awaited
verifyCalled(itemId) ==
  /\ Len(pending) < MaxCalls
  /\ pending' = Append(pending, VerifyCall(localStorage, itemId))
  /\ UNCHANGED <<localStorage, credentials, rand, faults, registered, last,
                 db, ui>>

\* navigator.credentials.get rejects or yields null (lines 143, 185-187)
getRejects(i, how) ==
  /\ i \in DOMAIN pending
  /\ pending[i].at = "get"
  /\ LET call == Settled(pending[i], how, Null, "none")
     IN /\ pending' = [pending EXCEPT ![i] = call]
        /\ last' = Outcome(call)
  /\ UNCHANGED <<localStorage, credentials, rand, faults, registered, db, ui>>

\* lines 174-181 after the await: the store the resumed call leaves
encryptSettled(store, call, encryptOk, reject) ==
  Migrated(store, ScopeId(call.itemId), call.password,
           Str(ToHex(PrfFirst(call.cred))), call.nonce, call.nonce,
           encryptOk, reject)

\* the prompt resolves with an assertion of credential c: lines 145-174 run
\* on the storage of this moment, up to the return, the throw or the await of
\* encryptData (whose salt and iv are drawn when it is called)
getResolves(i, c, hasPrf) ==
  /\ i \in DOMAIN pending
  /\ pending[i].at = "get"
  /\ c \in Assertable(pending[i].allow, credentials)
  /\ LET itemId == pending[i].itemId
         storedValue == StoredValue(localStorage, itemId)
         migrates == /\ Truthy(storedValue)
                     /\ ~IsSecure(localStorage, itemId)
                     /\ hasPrf
         r == VerifyAsserted(localStorage, itemId, c, hasPrf, 0, 0, FALSE, 0)
         asserted == [pending[i] EXCEPT !.cred = c, !.prf = hasPrf]
     IN IF migrates
          THEN /\ rand < MaxRand
               /\ rand' = rand + 1
               /\ pending' = [pending EXCEPT ![i] =
                                [asserted EXCEPT !.at = "encrypt",
                                                 !.password = storedValue,
                                                 !.nonce = rand + 1]]
               /\ UNCHANGED last
          ELSE /\ pending' = [pending EXCEPT ![i] =
                                Settled(asserted, r.outcome, r.ret, "none")]
               /\ last' = Outcome(pending'[i])
               /\ UNCHANGED rand
  /\ UNCHANGED <<localStorage, credentials, faults, registered, db, ui>>

\* encryptData settles: the writes of lines 175-176 or the catch of line
\* 178, then return password
encryptSettles(i, encryptOk, reject) ==
  /\ i \in DOMAIN pending
  /\ pending[i].at = "encrypt"
  /\ ~encryptOk => reject = 0
  /\ (~encryptOk \/ reject # 0) => faults < MaxFaults
  /\ faults' = IF ~encryptOk \/ reject # 0 THEN faults + 1 ELSE faults
  /\ localStorage' = encryptSettled(localStorage, pending[i], encryptOk, reject)
  /\ LET call == Settled(pending[i], "ok", pending[i].password,
                         IF ~encryptOk THEN "encryptFailed"
                         ELSE IF reject = 0 THEN "written"
                         ELSE "writeRejected")
     IN /\ pending' = [pending EXCEPT ![i] = call]
        /\ last' = Outcome(call)
  /\ UNCHANGED <<credentials, rand, registered, db, ui>>

\* item-1 holds the Legacy record of a registration with credential 1; the
\* global scope holds none, or the record of a registration with credential
\* 2, Legacy or Secure.
GlobalRecords == {"none", "legacy", "secure"}

InitAsync ==
  \E password \in Passwords, global \in GlobalRecords :
    /\ localStorage =
         Written(Written([k \in Keys |-> Null],
                         RegisterWrites("item-1", password, "Seed", 1, FALSE,
                                        0, 0), 0),
                 IF global = "none" THEN <<>>
                 ELSE RegisterWrites(Undefined, "abc12345", Undefined, 2,
                                     global = "secure", 1, 1), 0)
    /\ credentials = IF global = "none" THEN 1 ELSE 2
    /\ rand = IF global = "secure" THEN 1 ELSE 0
    /\ faults = 0
    /\ registered = [id \in Ids |->
                       IF id = "item-1" THEN [password |-> password, cred |-> 1]
                       ELSE IF global # "none"
                         THEN [password |-> "abc12345", cred |-> 2]
                       ELSE Null]
    /\ last = NoCall
    /\ db = EmptyDb
    /\ pending = NoPending
    /\ ui = NoUi

VerifyCalled == \E itemId \in ItemArgs : verifyCalled(itemId)

GetRejects ==
  \E i \in 1..MaxCalls, how \in VerifyDeclinedOutcomes : getRejects(i, how)

GetResolves ==
  \E i \in 1..MaxCalls, c \in 1..MaxCred, hasPrf \in BOOLEAN :
    getResolves(i, c, hasPrf)

EncryptSettles ==
  \E i \in 1..MaxCalls, encryptOk \in BOOLEAN, reject \in 0..2 :
    encryptSettles(i, encryptOk, reject)

NextAsync ==
  VerifyCalled \/ GetRejects \/ GetResolves \/ EncryptSettles \/ Clear

SpecAsync == InitAsync /\ [][NextAsync]_vars

\* call i settles in this step
Finishes(i) == pending[i].at # "done" /\ pending'[i].at = "done"

\* the scope holds no password, no secure flag and no credential id
NoRecord(store, id) ==
  /\ store[PassKey(id)] = Null
  /\ store[SecureKey(id)] = Null
  /\ store[CredKey(id)] = Null

\* C29  clear against an in-flight verify: when clearBiometrics(s) has run
\* while a verifyBiometrics(s) call made on a Legacy record was suspended, at
\* the prompt or at the wrapping encryption, scope s has no stored password,
\* secure flag or credential id once the call has finished; its migration
\* does not re-create the record.
C29_ClearAgainstVerify ==
  [][ \A i \in DOMAIN pending :
        (/\ Finishes(i)
         /\ pending[i].onLegacy
         /\ NoRecord(localStorage, ScopeId(pending[i].itemId)))
        => NoRecord(localStorage', ScopeId(pending[i].itemId)) ]_vars

\* C30  Two verifyBiometrics(s) calls on the same Legacy scope, both asserted
\* by the scope's credential with a PRF output and interleaved in any way at
\* their awaits (no encryption failing, no write rejected, the record not
\* cleared), both return the registered password and leave the record Secure
\* with a payload that unwraps to that password.
C30_InterleavedVerifies ==
  \A i, j \in DOMAIN pending :
    LET s == ScopeId(pending[i].itemId)
    IN (/\ i < j
        /\ pending[j].itemId = pending[i].itemId
        /\ pending[i].onLegacy
        /\ pending[i].at = "done" /\ pending[j].at = "done"
        /\ registered[s] # Null
        /\ faults = 0
        /\ \A k \in {i, j} :
             pending[k].prf /\ pending[k].cred = registered[s].cred)
       => (/\ \A k \in {i, j} :
                /\ pending[k].outcome = "ok"
                /\ pending[k].ret = Str(registered[s].password)
           /\ SecureFlag(localStorage, s)
           /\ Wraps(localStorage, s, registered[s].cred,
                    Str(registered[s].password)))

\* verifyBiometrics(itemId), given an assertion of credential c, would fail
\* with the no-password error
WouldFindNoPassword(store, itemId, c, hasPrf) ==
  VerifyAsserted(store, itemId, c, hasPrf, 0, 0, TRUE, 0).outcome
    = NoPasswordFound

\* C31  For every scope s and every storage state, hasBiometricsRegistered(s)
\* is true exactly when verifyBiometrics(s), given a successful platform
\* assertion, finds a password payload: it would not fail with the
\* no-password error, and a call that is made does not.
C31_RegisteredIffPasswordFound ==
  /\ [](\A itemId \in ItemArgs, c \in 1..MaxCred, hasPrf \in BOOLEAN :
          hasBiometricsRegistered(localStorage, itemId)
            <=> ~WouldFindNoPassword(localStorage, itemId, c, hasPrf))
  /\ [][ Asserted(last')
         => (hasBiometricsRegistered(localStorage, last'.itemId)
               <=> last'.outcome # NoPasswordFound) ]_vars

\* a verify of the item found the password of the global scope, the item's
\* own payload being absent or empty
C31_Witness ==
  /\ Asserted(last) /\ last.itemId \in Items
  /\ last.outcome = "ok"
  /\ ~Truthy(localStorage[PassKey(last.itemId)])
  /\ hasBiometricsRegistered(localStorage, last.itemId)

\* the backup object importData restores from: the parsed file, or the
\* text its wrapper's data decrypts to
BackupOf(jsonString, password) ==
  IF EncryptedWrapper(jsonString)
    THEN decryptData(jsonString.data, password).value
    ELSE jsonString

\* the last row of the array with this key, Null when there is none
RECURSIVE LastPut(_, _, _)
LastPut(rows, key, k) ==
  IF rows = <<>> THEN Null
  ELSE IF rows[Len(rows)][key] = k THEN rows[Len(rows)]
  ELSE LastPut(SubSeq(rows, 1, Len(rows) - 1), key, k)

\* the table after the upsert of the rows: a key of the backup holds the
\* backup's row, every other key what it held
Upserted(before, after, rows, key) ==
  \A k \in DOMAIN before :
    after[k] = IF LastPut(rows, key, k) # Null THEN LastPut(rows, key, k)
               ELSE before[k]

\* C32  importData writes nothing to vault_items or categories when it fails
\* (unparsable input, PASSWORD_REQUIRED, decryption failure, missing
\* vault_items/categories, or a failure inside the transaction); on success
\* it upserts by key, leaves the rows whose keys are absent from the backup
\* unchanged, and returns count equal to the number of vault_items in the
\* backup.
C32_ImportAllOrNothing ==
  [][ last'.op = "import"
      => IF last'.outcome # "ok" THEN db' = db
         ELSE LET data == BackupOf(last'.jsonString, last'.password)
              IN /\ Upserted(db.vault_items, db'.vault_items,
                             data.vault_items, "id")
                 /\ Upserted(db.categories, db'.categories,
                             data.categories, "name")
                 /\ last'.ret = [count |-> Len(data.vault_items)] ]_vars

\* an encrypted backup of one item was restored into a vault that holds
\* another item, which is still there
C32_Witness ==
  /\ last.op = "import" /\ last.outcome = "ok" /\ last.decrypts
  /\ last.ret = [count |-> 1]
  /\ db.vault_items["v1"] # Null
  /\ db.vault_items["v2"] # Null

\* navigateTo runs in this step: called by a click, or as the onBack() of a
\* handleEnableBio that has settled
NavigateToCalled ==
  /\ ~TimePasses
  /\ \/ last'.op = "navigateTo"
     \/ last'.op = "handleEnableBioSettled" /\ last'.outcome = "ok"

\* C33  While the vault is locked, navigateTo changes neither currentView nor
\* selectedItem and none of Dashboard, CreateItem, Scanner or ItemView is
\* rendered; isLocked returns to false only through handleUnlock.
C33_LockedVaultStaysPut ==
  /\ [](ui.mounted /\ ui.isLocked => Rendered(ui) = "LockScreen")
  /\ [][ (ui.mounted /\ ui.isLocked)
         => /\ NavigateToCalled
                 => /\ ui'.currentView = ui.currentView
                    /\ ui'.selectedItem = ui.selectedItem
            /\ ~ui'.isLocked => last'.op = "handleUnlockSettled" ]_vars

\* C34  handleUnlock unlocks the vault only if verifyBiometrics() resolved
\* successfully; when the biometric verification is rejected or cancelled the
\* vault stays locked.
C34_UnlockNeedsVerification ==
  [][ (ui.mounted /\ ui.isLocked /\ ~ui'.isLocked)
      => (last'.op = "handleUnlockSettled" /\ last'.outcome = "ok") ]_vars

\* ------------------------------------------------ the buffers of the cipher
\* The byte buffers a call of encryptData or decryptData owns, as they are
\* when the call completes: Null for a buffer that was never made, Holds(b)
\* for one whose bytes are still in memory, Zeroed after fill(0).
Holds(bytes) == [holds |-> bytes]
Zeroed == [zeroed |-> TRUE]
Fill0(buffer) == IF buffer = Null THEN Null ELSE Zeroed

\* new TextEncoder().encode(text) as a buffer: one of no bytes holds nothing
Encoded(text) ==
  IF text.units = <<>> THEN Zeroed ELSE Holds(TextEncode(text))

\* window.crypto.subtle failing in getDerivedKey: importKey or deriveKey
\* throws (no subtle crypto in this context, an OperationError)
KeyFaults == {"none", "importKey", "deriveKey"}

\* getDerivedKey, lines 30-59: the finally of line 55 runs on every path
DerivedKeyBuffers(password, fault) ==
  [ok |-> fault = "none",
   passwordBuffer |-> Fill0(Encoded(password))]

\* encryptData, lines 61-87.  encryptFails: subtle.encrypt throws.
EncryptBuffers(text, password, fault, encryptFails) ==
  LET data == Encoded(text)
      key == DerivedKeyBuffers(password, fault)
  IN IF ~key.ok
       THEN [exit |-> "throw", at |-> "getDerivedKey",
             buffers |-> [passwordBuffer |-> key.passwordBuffer,
                          data |-> data]]
     ELSE [exit |-> IF encryptFails THEN "throw" ELSE "return",
           at |-> IF encryptFails THEN "encrypt" ELSE "none",
           buffers |-> [passwordBuffer |-> key.passwordBuffer,
                        data |-> Fill0(data)]]

\* atob throws on this field of the parsed envelope
BadField(payload, f) == f \notin DOMAIN payload \/ ~IsBase64(payload[f])

NoBuffers == [passwordBuffer |-> Null, iv |-> Null, salt |-> Null,
              decryptedContent |-> Null]

\* decryptData, lines 89-117: lines 90-95 run before the try of line 97
DecryptBuffers(encryptedJson, password, fault) ==
  IF ~IsJsonObject(encryptedJson)
    THEN [exit |-> "throw", at |-> "JSON.parse", buffers |-> NoBuffers]
  ELSE IF BadField(encryptedJson, "ciphertext")
    THEN [exit |-> "throw", at |-> "atob ciphertext", buffers |-> NoBuffers]
  ELSE IF BadField(encryptedJson, "iv")
    THEN [exit |-> "throw", at |-> "atob iv", buffers |-> NoBuffers]
  ELSE LET iv == Holds(base64ToArrayBuffer(encryptedJson.iv))
       IN IF BadField(encryptedJson, "salt")
            THEN [exit |-> "throw", at |-> "atob salt",
                  buffers |-> [NoBuffers EXCEPT !.iv = iv]]
          ELSE LET salt == Holds(base64ToArrayBuffer(encryptedJson.salt))
                   key == DerivedKeyBuffers(password, fault)
                   d == decryptData(encryptedJson, password)
               IN IF ~key.ok
                    THEN [exit |-> "throw", at |-> "getDerivedKey",
                          buffers |->
                            [passwordBuffer |-> key.passwordBuffer,
                             iv |-> iv, salt |-> salt,
                             decryptedContent |-> Null]]
                  ELSE [exit |-> IF d.ok THEN "return" ELSE "throw",
                        at |-> IF d.ok THEN "none" ELSE "decrypt",
                        buffers |->
                          [passwordBuffer |-> key.passwordBuffer,
                           iv |-> Fill0(iv), salt |-> Fill0(salt),
                           decryptedContent |->
                             IF d.ok
                               THEN Fill0(Encoded(d.value))
                               ELSE Null]]

encryptRuns(text, password, fault, encryptFails) ==
  LET r == EncryptBuffers(text, password, fault, encryptFails)
  IN /\ rand < MaxRand
     /\ fault # "none" => ~encryptFails
     /\ rand' = rand + 1
     /\ last' = [op |-> "encryptData", text |-> text, password |-> password,
                 exit |-> r.exit, at |-> r.at, buffers |-> r.buffers]
     /\ UNCHANGED <<localStorage, credentials, faults, registered, db,
                    pending, ui>>

\* decryptData on an envelope encryptData made of text, altered or not
decryptRuns(text, password, how, password2, fault) ==
  LET encryptedJson == Altered(encryptData(text, password, 1, 1), how)
      r == DecryptBuffers(encryptedJson, password2, fault)
  IN /\ last' = [op |-> "decryptData", encryptedJson |-> encryptedJson,
                 password |-> password2,
                 exit |-> r.exit, at |-> r.at, buffers |-> r.buffers]
     /\ UNCHANGED <<localStorage, credentials, rand, faults, registered, db,
                    pending, ui>>

\* the texts and passwords the two functions are run on
BufferTexts == {[units |-> u] : u \in UnitSeqs(1)}
BufferPasswords == {[units |-> <<"a">>], [units |-> <<"a", "a">>]}

EncryptRuns ==
  \E text \in BufferTexts, password \in BufferPasswords,
     fault \in KeyFaults, encryptFails \in BOOLEAN :
    encryptRuns(text, password, fault, encryptFails)

DecryptRuns ==
  \E text \in BufferTexts, password \in BufferPasswords,
     how \in Alterations, password2 \in BufferPasswords, fault \in KeyFaults :
    decryptRuns(text, password, how, password2, fault)

SpecBuffers == Init /\ [][EncryptRuns \/ DecryptRuns]_vars

\* C35  On every exit path of encryptData and decryptData, normal return or
\* thrown error, the sensitive buffers they own are zeroed before the call
\* completes: the encoded password bytes in getDerivedKey, the encoded
\* plaintext in encryptData, and the iv, salt and decrypted plaintext buffer
\* in decryptData.
C35_BuffersZeroedOnExit ==
  last.op \in {"encryptData", "decryptData"}
  => \A b \in DOMAIN last.buffers : last.buffers[b] \in {Null, Zeroed}

====
